---- MODULE Spec2Model ----
(***************************************************************************)
(* LYServer plugin runtime: the event bus (global broadcast channel,       *)
(* dispatcher task, per-plugin fan-out), the plugin manager (load_plugin,  *)
(* init handshake, supervisor tasks) and LYServer::run with its shutdown   *)
(* path.                                                                   *)
(*                                                                         *)
(* A tokio broadcast channel is modelled by the sequence of all values     *)
(* sent on it; a receiver is a position in that sequence (the number of    *)
(* values it has passed).  subscribe() yields the current length, send()   *)
(* fails when no receiver exists, recv() reports Lagged when more than the *)
(* ring capacity lies between the receiver and the tail.                   *)
(***************************************************************************)
EXTENDS Integers, Sequences, FiniteSets, TLC

\* ------------------------------------------------------------------ bounds
\* Total number of events accepted by the global channel in one run.
MaxEvents == 2
\* Ring capacity of the global channel (512 in the source), scaled down
\* to the smallest ring that holds two pending events.
GlobalCap == 2
\* Ring capacity of a per-plugin channel (1024 in the source), scaled down so
\* that a lagging waiter occurs within MaxEvents.
PluginCap == 1
\* Number of tasks that call register_plugin_messaging at the same time.
MaxCallers == 3
\* Number of plugin replies sent on the http plugin's channel while the
\* bridge handles one request.
MaxArrivals == 3
\* Number of HTTP requests in flight at the same time.
MaxRequests == 2
\* Length of a chain of replies made one to the other.
MaxChain == 3
\* Number of events on the global channel in a burst: one more than fits
\* the ring behind a receiver that saw the first.
MaxBurst == 4
\* Size of a guest's linear memory, in bytes.
MemSize == 2
\* Concurrent callers of the preferences plugin's operations.
MaxPrefCallers == 2
\* Matchers added to a router.
MaxMatchers == 3

\* The plugins LYServer::run loads, in order: the built-in ones (a failure
\* ends run; one instance stands for the three of server.rs:61-80) followed
\* by the WASM plugins found in the plugins directory.  The last directory
\* holds a manifest with the id of an earlier one.
LoadOrder == <<"http@lyserver.local", "hello@lyserver.local", "media@lyserver.local",
               "hello@lyserver.local">>
BuiltIn == {1}

Instances == 1..Len(LoadOrder)
Id(i) == LoadOrder[i]
PluginIds == {LoadOrder[i] : i \in Instances}

\* ------------------------------------------------------------ event model
All == [tag |-> "All", id |-> ""]
Plugin(s) == [tag |-> "Plugin", id |-> s]
\* The targets plugins address events to: everyone, or the first plugin
\* (directed at another plugin for the later ones, at itself for the first).
Targets == {All, Plugin(LoadOrder[1])}
EventTypes == {"plugin_init", "other"}

Some(x) == <<x>>
None == <<>>

is_all(t) == t.tag = "All"
plugin_id(t) == IF t.tag = "Plugin" THEN Some(t.id) ELSE None

LYServerMessageEvent(eid, ty, tg, sn) ==
    [event_id |-> eid, event_type |-> ty, event_target |-> tg, event_sender |-> sn]

\* lyserver_random_id::generate (called at messaging_shared lib.rs:120): a
\* fresh event id, one that no event sent before carries.  Ids are numbered
\* by the count of events the global channel has accepted.
generate(log) == Len(log) + 1

Range(s) == {s[k] : k \in 1..Len(s)}

\* No receiver.
NoRx == -1

\* Concurrent callers of register_plugin_messaging.
RegCallers == 1..MaxCallers

\* HTTP requests the bridge handles at the same time.
Requests == 1..MaxRequests

\* plugin.rs:61 - the bridge before it has built the http_request event.
BridgeIdle ==
    [pc |-> "idle", rx |-> NoRx, timer |-> FALSE, req |-> None, dispAt |-> NoRx,
     sub1 |-> NoRx, sub2 |-> NoRx, endAt |-> NoRx, intent |-> None, reply |-> None]

\* http lib.rs:103-104 - the http plugin's event loop before its first
\* receive_event call, no handler task spawned.
HttpLoopIdle == [pc |-> "subscribe", rx |-> NoRx, handlers |-> {}, seen |-> {}]

\* No function is being applied.
CalcIdle == [op |-> "none"]

\* plugin_impl.rs:59-70 - a WASM plugin after LYServerWASMPlugin::new: the
\* store mutex free, no task spawned by init(), destroy() or
\* handle_message_event(), no event handled.
WasmIdle ==
    [lock |-> "free", initTask |-> "none", initRx |-> NoRx, destroyTask |-> "none",
     handleCall |-> "none", handleEvent |-> None, handled |-> {}, faults |-> 0]

\* preferences lib.rs:116-118, database preferences.rs:85-94 - the keys of
\* the preferences table that are worked on, and the callers of the
\* preferences plugin's operations.
PrefKeys == {"server.version", "player.volume"}
PrefCallers == 1..MaxPrefCallers

\* database preferences.rs:85-94 - no row of the table has the key.
NoRow == [value |-> "", native_type_id |-> "absent", is_locked |-> FALSE]

\* A caller that is in no operation of the preferences plugin.
PrefCallIdle ==
    [op |-> "none", pc |-> "idle", key |-> "", value |-> "", native_type |-> "absent",
     is_locked |-> FALSE, underLock |-> FALSE, result |-> "none"]

\* The preferences database after its migration (database preferences.rs:
\* 55-112): an empty table, nobody in an operation.  lockedSince is history:
\* a set_preference_lock(k, true) has completed for the existing key k and no
\* unlock of k has been issued since.
PreferencesIdle ==
    [table |-> [k \in PrefKeys |-> NoRow],
     calls |-> [c \in PrefCallers |-> PrefCallIdle],
     lockedSince |-> [k \in PrefKeys |-> FALSE]]

\* plugins.rs:152-190 - what load_plugin_from_path finds at a plugin path:
\* whether it is a directory, its manifest.toml (missing, unparsable,
\* without wasm_entry_point, or complete) and whether the wasm file the
\* manifest names exists.
ValidDir == [is_dir |-> TRUE, manifest |-> "ok", wasm_exists |-> TRUE]
ValidDirs == [i \in Instances |-> ValidDir]

VARIABLES
    shutdown_flag,           \* LYServerSharedData.shutdown_flag
    messaging_loop_running,  \* LYServerPluginManager.messaging_loop_running
    messaging_plugin_tx,     \* plugin id -> instance whose sender is registered
    loaded_plugins,          \* sequence of instances (records in load order)
    cancelled,               \* instance -> its CancellationToken is cancelled
    plugin_tasks,            \* join handles held by the manager
    joining,                 \* join handles moved into a pending try_join_all
    glog,                    \* global channel: every accepted event, in order
    dispRx,                  \* the dispatcher's receiver on the global channel
    dispPc,                  \* the dispatcher task's position
    fanTasks,                \* spawned per-event fan-out tasks, not yet run
    sendTasks,               \* spawned per-subscriber send tasks, not yet run
    ptx,                     \* instance -> per-plugin channel (events sent)
    runPc,                   \* LYServer::run's position
    loadIdx,                 \* the instance load_plugin is working on
    waitRx,                  \* wait_until_event's receiver
    timerExpired,            \* the wait's timeout has elapsed
    sup,                     \* instance -> supervisor task state
    initSent,                \* instance -> a built-in's init() has sent plugin_init
    \* history variables
    waitSub,                 \* instance -> position its handshake wait subscribed at
    loadResult,              \* instance -> outcome of load_plugin
    handshakeEvent,          \* instance -> Some(event) returned by its wait
    destroyed,               \* instance -> number of destroy() invocations
    loadedAtShutdown,        \* records present when shutdown was requested
    shutdownDuring,          \* what run was doing when shutdown was requested
    \* callers of register_plugin_messaging and of the HTTP bridge
    reg,                     \* caller -> position in register_plugin_messaging
    bridge,                  \* request -> the HTTP bridge handling it
    httpd,                   \* the http plugin's event loop and handler tasks
    calc,                    \* argument and result of a function under test
    wasm,                    \* instance -> its WASM store, guest calls and tasks
    preferences,             \* the preferences table and the calls working on it
    plugin_dirs              \* instance -> what the file system holds at its plugin path

vars == <<shutdown_flag, messaging_loop_running, messaging_plugin_tx,
          loaded_plugins, cancelled, plugin_tasks, joining, glog, dispRx,
          dispPc, fanTasks, sendTasks, ptx, runPc, loadIdx, waitRx,
          timerExpired, sup, initSent, waitSub,
          loadResult, handshakeEvent, destroyed, loadedAtShutdown,
          shutdownDuring, reg, bridge, httpd, calc, wasm, preferences, plugin_dirs>>

busVars == <<glog, dispRx, dispPc, fanTasks, sendTasks, ptx, messaging_loop_running>>
mgrVars == <<messaging_plugin_tx, loaded_plugins, cancelled, plugin_tasks,
             joining, runPc, loadIdx, waitRx, timerExpired, sup, initSent, waitSub, loadResult, handshakeEvent, destroyed>>

InitServer ==
    /\ shutdown_flag = FALSE
    /\ messaging_loop_running = FALSE
    /\ messaging_plugin_tx = [p \in {} |-> 0]
    /\ loaded_plugins = << >>
    /\ cancelled = [i \in Instances |-> FALSE]
    /\ plugin_tasks = {}
    /\ joining = {}
    /\ glog = << >>
    /\ dispRx = NoRx
    /\ dispPc = "unspawned"
    /\ fanTasks = {}
    /\ sendTasks = {}
    /\ ptx = [i \in Instances |-> << >>]
    /\ runPc = "start"
    /\ loadIdx = 1
    /\ waitRx = NoRx
    /\ timerExpired = FALSE
    /\ sup = [i \in Instances |-> "none"]
    /\ initSent = [i \in Instances |-> FALSE]
    /\ waitSub = [i \in Instances |-> NoRx]
    /\ loadResult = [i \in Instances |-> "none"]
    /\ handshakeEvent = [i \in Instances |-> None]
    /\ destroyed = [i \in Instances |-> 0]
    /\ loadedAtShutdown = {}
    /\ shutdownDuring = "none"
    /\ reg = [c \in RegCallers |-> [pc |-> "idle", id |-> ""]]
    /\ bridge = [r \in Requests |-> BridgeIdle]
    /\ httpd = HttpLoopIdle
    /\ wasm = [i \in Instances |-> WasmIdle]
    /\ preferences = PreferencesIdle
    /\ plugin_dirs = ValidDirs

Init == InitServer /\ calc = CalcIdle

\* main.rs:26-30 - run has returned (or panicked): the process ends and the
\* runtime drops every task.
RunOver == runPc \in {"returned", "returned_err", "goodbye", "panicked"}

\* ------------------------------------------------------------ the event bus
\* tokio::sync::broadcast::Sender::send on the global channel: Err when no
\* receiver is subscribed, otherwise the value enters the ring.
GlobalSendOk == dispRx # NoRx

\* What the init() of instance i may dispatch next.  The built-in plugins
\* call dispatch_init_event first and once (database lib.rs:62, preferences
\* lib.rs:375, http lib.rs:87) and send other events afterwards (reply_event,
\* the http_request of the bridge); a WASM guest sends whatever it likes
\* through the send import (wasm_loader lib.rs:179-213).
MayDispatch(i, ty, tg) ==
    i \in BuiltIn => IF initSent[i] THEN ty = "other"
                     ELSE ty = "plugin_init" /\ tg = All

\* messaging.rs:23-31 dispatch_event, called from the init() of a running
\* plugin.  A built-in plugin propagates the error with `?`: its init()
\* returns Err, and the supervisor unloads the plugin and panics
\* (plugins.rs:255-260).
DispatchEvent(i, ty, tg) ==
    /\ ~RunOver
    /\ sup[i] = "init"
    /\ MayDispatch(i, ty, tg)
    /\ IF GlobalSendOk
       THEN /\ glog' = Append(glog, LYServerMessageEvent(generate(glog), ty, tg, Plugin(Id(i))))
            /\ initSent' = [initSent EXCEPT ![i] = @ \/ i \in BuiltIn]
            /\ UNCHANGED <<sup, loaded_plugins>>
       ELSE /\ UNCHANGED <<glog, initSent>>
            /\ IF i \in BuiltIn
               THEN /\ sup' = [sup EXCEPT ![i] = "panicked"]
                    /\ loaded_plugins' = SelectSeq(loaded_plugins, LAMBDA r : r # i)
               ELSE UNCHANGED <<sup, loaded_plugins>>
    /\ UNCHANGED <<shutdown_flag, messaging_loop_running, dispRx, dispPc, fanTasks,
                   sendTasks, ptx, loadedAtShutdown, shutdownDuring, reg, bridge, httpd, calc, wasm, preferences, plugin_dirs>>
    /\ UNCHANGED <<messaging_plugin_tx, cancelled, plugin_tasks, joining, runPc,
                   loadIdx, waitRx, timerExpired, waitSub, loadResult,
                   handshakeEvent, destroyed>>

\* The dispatches of one run, up to MaxEvents accepted events.
PluginDispatch(i, ty, tg) ==
    /\ Len(glog) < MaxEvents
    /\ DispatchEvent(i, ty, tg)

\* plugins.rs:50 - the dispatcher task stores messaging_loop_running = true.
DispSetRunning ==
    /\ ~RunOver
    /\ dispPc = "spawned"
    /\ messaging_loop_running' = TRUE
    /\ dispPc' = "subscribe"
    /\ UNCHANGED <<glog, dispRx, fanTasks, sendTasks, ptx>>
    /\ UNCHANGED <<shutdown_flag, loadedAtShutdown, shutdownDuring, reg, bridge, httpd, calc, wasm, preferences, plugin_dirs>>
    /\ UNCHANGED mgrVars

\* tokio broadcast subscribe(): the new receiver starts at the tail and sees
\* only what is sent afterwards.
Subscribe(log) == Len(log)

\* messaging.rs:56 - receive_event subscribes a fresh receiver.
DispSubscribe ==
    /\ ~RunOver
    /\ dispPc = "subscribe"
    /\ dispRx' = Subscribe(glog)
    /\ dispPc' = "recv"
    /\ UNCHANGED <<glog, fanTasks, sendTasks, ptx,
                   messaging_loop_running>>
    /\ UNCHANGED <<shutdown_flag, loadedAtShutdown, shutdownDuring, reg, bridge, httpd, calc, wasm, preferences, plugin_dirs>>
    /\ UNCHANGED mgrVars

\* The receiver has fallen more than the ring capacity behind.
Lagged(rx, log, cap) == Len(log) - rx > cap

\* messaging.rs:58-64 and plugins.rs:54-59,93-99 - rx.recv() completes.  The
\* receiver is dropped when receive_event returns.  Ok: the loop body spawns
\* the fan-out task of the event.  Err(Lagged): receive_event returns None,
\* the while-let loop ends and the task clears the running flag.
DispRecv ==
    /\ ~RunOver
    /\ dispPc = "recv"
    /\ dispRx < Len(glog)
    /\ dispRx' = NoRx
    /\ IF Lagged(dispRx, glog, GlobalCap)
       THEN /\ dispPc' = "done"
            /\ messaging_loop_running' = FALSE
            /\ UNCHANGED fanTasks
       ELSE /\ dispPc' = "subscribe"
            /\ fanTasks' = fanTasks \cup {glog[dispRx + 1]}
            /\ UNCHANGED messaging_loop_running
    /\ UNCHANGED <<glog, sendTasks, ptx>>
    /\ UNCHANGED <<shutdown_flag, loadedAtShutdown, shutdownDuring, reg, bridge, httpd, calc, wasm, preferences, plugin_dirs>>
    /\ UNCHANGED mgrVars

\* plugins.rs:42-47,99 - the shutdown branch of the dispatcher's select wins
\* while the loop is suspended (or before the loop was polled at all).
DispExit ==
    /\ ~RunOver
    /\ shutdown_flag
    /\ dispPc \in {"spawned", "recv"}
    /\ dispPc' = "done"
    /\ dispRx' = NoRx
    /\ messaging_loop_running' = FALSE
    /\ UNCHANGED <<glog, fanTasks, sendTasks, ptx>>
    /\ UNCHANGED <<shutdown_flag, loadedAtShutdown, shutdownDuring, reg, bridge, httpd, calc, wasm, preferences, plugin_dirs>>
    /\ UNCHANGED mgrVars

\* The filter with delivery back to the sender left out.
FanOutFilter_NoSelf(event, pid) ==
    /\ is_all(event.event_target) \/ plugin_id(event.event_target) = Some(pid)
    /\ event.event_sender # Plugin(pid)

\* plugins.rs:64 - the filter of the fan-out.
FanOutFilter(event, pid) ==
    is_all(event.event_target) \/ plugin_id(event.event_target) = Some(pid)

\* plugins.rs:59-92 - the per-event task: snapshot the matching senders under
\* the read lock and spawn one send task per sender.
FanOut(e) ==
    /\ ~RunOver
    /\ e \in fanTasks
    /\ fanTasks' = fanTasks \ {e}
    /\ sendTasks' = sendTasks \cup
          {<<messaging_plugin_tx[p], e>> :
              p \in {q \in DOMAIN messaging_plugin_tx : FanOutFilter(e, q)}}
    /\ UNCHANGED <<glog, dispRx, dispPc, ptx,
                   messaging_loop_running>>
    /\ UNCHANGED <<shutdown_flag, loadedAtShutdown, shutdownDuring, reg, bridge, httpd, calc, wasm, preferences, plugin_dirs>>
    /\ UNCHANGED mgrVars

\* plugins.rs:84-90 - the per-subscriber task sends on the plugin's sender.
SendToPlugin(i, e) ==
    /\ ~RunOver
    /\ <<i, e>> \in sendTasks
    /\ sendTasks' = sendTasks \ {<<i, e>>}
    /\ ptx' = [ptx EXCEPT ![i] = Append(@, e)]
    /\ UNCHANGED <<glog, dispRx, dispPc, fanTasks,
                   messaging_loop_running>>
    /\ UNCHANGED <<shutdown_flag, loadedAtShutdown, shutdownDuring, reg, bridge, httpd, calc, wasm, preferences, plugin_dirs>>
    /\ UNCHANGED mgrVars

\* ------------------------------------------------------- supervisor tasks
\* plugins.rs:244-249 - unload_plugin removes the record of the instance.
RemoveRecord(recs, i) == SelectSeq(recs, LAMBDA r : r # i)

\* plugins.rs:254-261 - plugin.init() returns Ok: the select is over and the
\* supervisor task ends; the record stays.  A built-in's init() comes to its
\* Ok only after dispatch_init_event (preferences lib.rs:375-410: the event
\* loop ends when receive_event yields None; http lib.rs:87-117); a WASM
\* guest's init export returns when the guest decides.
SupInitOk(i) ==
    /\ ~RunOver
    /\ sup[i] = "init"
    /\ i \in BuiltIn => initSent[i]
    /\ sup' = [sup EXCEPT ![i] = "done"]
    /\ UNCHANGED <<messaging_plugin_tx, loaded_plugins, cancelled, plugin_tasks,
                   joining, runPc, loadIdx, waitRx, timerExpired, waitSub, loadResult, handshakeEvent, destroyed>>
    /\ UNCHANGED <<shutdown_flag, loadedAtShutdown, shutdownDuring, reg, bridge, httpd, calc, wasm, preferences, plugin_dirs>>
    /\ UNCHANGED <<busVars, initSent>>

\* plugins.rs:255-260 - plugin.init() returns Err: unload, then panic.
SupInitErr(i) ==
    /\ ~RunOver
    /\ sup[i] = "init"
    /\ loaded_plugins' = RemoveRecord(loaded_plugins, i)
    /\ sup' = [sup EXCEPT ![i] = "panicked"]
    /\ UNCHANGED <<messaging_plugin_tx, cancelled, plugin_tasks,
                   joining, runPc, loadIdx, waitRx, timerExpired, waitSub, loadResult, handshakeEvent, destroyed>>
    /\ UNCHANGED <<shutdown_flag, loadedAtShutdown, shutdownDuring, reg, bridge, httpd, calc, wasm, preferences, plugin_dirs>>
    /\ UNCHANGED <<busVars, initSent>>

\* plugins.rs:262-265 - the token is cancelled while init() is pending: the
\* init future is dropped and destroy() is invoked.
SupCancel(i) ==
    /\ ~RunOver
    /\ sup[i] = "init"
    /\ cancelled[i]
    /\ sup' = [sup EXCEPT ![i] = "destroying"]
    /\ destroyed' = [destroyed EXCEPT ![i] = @ + 1]
    /\ UNCHANGED <<messaging_plugin_tx, loaded_plugins, cancelled, plugin_tasks,
                   joining, runPc, loadIdx, waitRx, timerExpired, waitSub, loadResult, handshakeEvent>>
    /\ UNCHANGED <<shutdown_flag, loadedAtShutdown, shutdownDuring, reg, bridge, httpd, calc, wasm, preferences, plugin_dirs>>
    /\ UNCHANGED <<busVars, initSent>>

\* plugins.rs:265-275 - destroy() has returned (Ok or Err): unload, task ends.
SupDestroyDone(i) ==
    /\ ~RunOver
    /\ sup[i] = "destroying"
    /\ loaded_plugins' = RemoveRecord(loaded_plugins, i)
    /\ sup' = [sup EXCEPT ![i] = "done"]
    /\ UNCHANGED <<messaging_plugin_tx, cancelled, plugin_tasks,
                   joining, runPc, loadIdx, waitRx, timerExpired, waitSub, loadResult, handshakeEvent, destroyed>>
    /\ UNCHANGED <<shutdown_flag, loadedAtShutdown, shutdownDuring, reg, bridge, httpd, calc, wasm, preferences, plugin_dirs>>
    /\ UNCHANGED <<busVars, initSent>>

\* A spawned task has run to its end / has panicked.
DispatcherTask == <<"dispatcher", 0>>
SupervisorTask(i) == <<"supervisor", i>>
TaskFinished(h) ==
    IF h = DispatcherTask THEN dispPc = "done" ELSE sup[h[2]] \in {"done", "panicked"}
TaskPanicked(h) == h # DispatcherTask /\ sup[h[2]] = "panicked"

\* plugins.rs:297 - try_join_all over the handles: ready when every task has
\* finished, or as soon as one of them is seen to have panicked.
TryJoinAllReady(handles) ==
    \/ \A h \in handles : TaskFinished(h)
    \/ \E h \in handles : TaskPanicked(h)

\* ------------------------------------------------------------ LYServer::run
\* server.rs:27-31 - the Ctrl+C handler.
ShutdownSignal ==
    /\ ~RunOver
    /\ ~shutdown_flag
    /\ shutdown_flag' = TRUE
    /\ loadedAtShutdown' = Range(loaded_plugins)
    /\ shutdownDuring' = IF runPc = "join" THEN "waiting" ELSE "loading"
    /\ UNCHANGED <<reg, bridge, httpd, calc, wasm, preferences, plugin_dirs>>
    /\ UNCHANGED busVars
    /\ UNCHANGED mgrVars

\* server.rs:41 and plugins.rs:35-109 - init_messaging_loop spawns the
\* dispatcher task and keeps its handle.
InitMessagingLoop ==
    /\ runPc = "start"
    /\ dispPc' = "spawned"
    /\ plugin_tasks' = plugin_tasks \cup {DispatcherTask}
    /\ runPc' = "load"
    /\ UNCHANGED <<glog, dispRx, fanTasks, sendTasks, ptx,
                   messaging_loop_running>>
    /\ UNCHANGED <<messaging_plugin_tx, loaded_plugins, cancelled, joining, loadIdx,
                   waitRx, timerExpired, sup, initSent, waitSub, loadResult,
                   handshakeEvent, destroyed>>
    /\ UNCHANGED <<shutdown_flag, loadedAtShutdown, shutdownDuring, reg, bridge, httpd, calc, wasm, preferences, plugin_dirs>>

\* Where run goes once load_plugin of instance i has returned.  server.rs:
\* 61-80 - a built-in plugin that fails to load ends run with an error;
\* plugins.rs:128-134 - a directory plugin that fails is logged and skipped;
\* server.rs:82,91 - after the last one, wait_for_all_plugins.
AfterLoad(i, ok) ==
    IF ~ok /\ i \in BuiltIn THEN "returned_err"
    ELSE IF i < Len(LoadOrder) THEN "load" ELSE "join_start"

\* messaging.rs:40 - contains_key on the map.
AlreadyRegistered_Never(map, id) == FALSE

AlreadyRegistered(map, id) == id \in DOMAIN map

\* messaging.rs:47-50 - HashMap::insert: the new sender takes the key.
InsertSender_Dropped(map, id, i) == map

InsertSender(map, id, i) == (id :> i) @@ map

\* messaging.rs:33-53 and plugin_shared_data lib.rs:39-53 - load_plugin
\* registers the plugin's sender; an id already in the map is an error and
\* load_plugin returns it.
LoadRegister ==
    /\ runPc = "load"
    /\ LET i == loadIdx IN
       IF AlreadyRegistered(messaging_plugin_tx, Id(i))
       THEN /\ loadResult' = [loadResult EXCEPT ![i] = "already_registered"]
            /\ runPc' = AfterLoad(i, FALSE)
            /\ loadIdx' = IF i < Len(LoadOrder) THEN i + 1 ELSE i
            /\ UNCHANGED messaging_plugin_tx
       ELSE /\ messaging_plugin_tx' = InsertSender(messaging_plugin_tx, Id(i), i)
            /\ runPc' = "construct"
            /\ UNCHANGED <<loadResult, loadIdx>>
    /\ UNCHANGED <<loaded_plugins, cancelled, plugin_tasks, joining, waitRx,
                   timerExpired, sup, initSent, waitSub, handshakeEvent, destroyed>>
    /\ UNCHANGED <<shutdown_flag, loadedAtShutdown, shutdownDuring, reg, bridge, httpd, calc, wasm, preferences, plugin_dirs>>
    /\ UNCHANGED <<busVars, initSent>>

\* plugins.rs:192-209, 232 - the constructor of a directory plugin unwraps
\* the result of create_wasm_plugin_instance: when instantiation fails
\* (wasm_loader lib.rs:238-251, plugin_impl.rs:43-57) the unwrap panics inside
\* load_plugin, in the task that runs LYServer::run.
LoadConstructFail ==
    /\ runPc = "construct"
    /\ loadIdx \notin BuiltIn
    /\ loadResult' = [loadResult EXCEPT ![loadIdx] = "instantiation_failed"]
    /\ runPc' = "panicked"
    /\ UNCHANGED <<messaging_plugin_tx, loaded_plugins, cancelled, plugin_tasks,
                   joining, loadIdx, waitRx, timerExpired, sup, waitSub,
                   handshakeEvent, destroyed>>
    /\ UNCHANGED <<shutdown_flag, loadedAtShutdown, shutdownDuring, reg, bridge, httpd, calc, wasm, preferences, plugin_dirs>>
    /\ UNCHANGED <<busVars, initSent>>

\* plugins.rs:232-278 - the constructor has run; the record is pushed, the
\* supervisor task is spawned and its handle kept.
LoadSpawn ==
    /\ runPc = "construct"
    /\ loaded_plugins' = Append(loaded_plugins, loadIdx)
    /\ sup' = [sup EXCEPT ![loadIdx] = "init"]
    /\ plugin_tasks' = plugin_tasks \cup {SupervisorTask(loadIdx)}
    /\ runPc' = "handshake"
    /\ UNCHANGED <<messaging_plugin_tx, cancelled, joining, loadIdx, waitRx,
                   timerExpired, waitSub, loadResult, handshakeEvent,
                   destroyed>>
    /\ UNCHANGED <<shutdown_flag, loadedAtShutdown, shutdownDuring, reg, bridge, httpd, calc, wasm, preferences, plugin_dirs>>
    /\ UNCHANGED <<busVars, initSent>>

\* A receiver that starts at the head of the channel's history, as one kept
\* from registration would.
WaitUntilSubscribe_Stale(log) == 0

\* plugin_shared_data lib.rs:163-166 - wait_until_event subscribes a fresh
\* receiver to the plugin's own sender.
WaitUntilSubscribe(log) == Subscribe(log)

\* plugins.rs:283-287 and plugin_shared_data lib.rs:163-166 - the manager
\* panics when the dispatcher is not running; otherwise wait_until_event
\* subscribes a fresh receiver to the plugin's channel and the timer starts.
LoadHandshakeStart ==
    /\ runPc = "handshake"
    /\ IF ~messaging_loop_running
       THEN /\ runPc' = "panicked"
            /\ UNCHANGED <<waitRx, waitSub, timerExpired>>
       ELSE /\ runPc' = "wait"
            /\ waitRx' = WaitUntilSubscribe(ptx[loadIdx])
            /\ waitSub' = [waitSub EXCEPT ![loadIdx] = Len(ptx[loadIdx])]
            /\ timerExpired' = FALSE
    /\ UNCHANGED <<messaging_plugin_tx, loaded_plugins, cancelled, plugin_tasks,
                   joining, loadIdx, sup, loadResult, handshakeEvent,
                   destroyed>>
    /\ UNCHANGED <<shutdown_flag, loadedAtShutdown, shutdownDuring, reg, bridge, httpd, calc, wasm, preferences, plugin_dirs>>
    /\ UNCHANGED <<busVars, initSent>>

\* plugins.rs:287 - the handshake's predicate.
HandshakePredicate(e) == e.event_type = "plugin_init"

\* plugin_shared_data lib.rs:168-181 - one turn of the wait's loop: recv()
\* yields Lagged (logged, the receiver moves to the oldest retained value,
\* the loop goes on), an event the predicate rejects (the loop goes on), or
\* an event it accepts (Some(event): load_plugin returns Ok, plugins.rs:293).
WaitRecv ==
    /\ runPc = "wait"
    /\ waitRx < Len(ptx[loadIdx])
    /\ LET i == loadIdx
           e == ptx[i][waitRx + 1]
       IN IF Lagged(waitRx, ptx[i], PluginCap)
          THEN /\ waitRx' = Len(ptx[i]) - PluginCap
               /\ UNCHANGED <<runPc, loadIdx, loadResult, handshakeEvent, timerExpired>>
          ELSE IF HandshakePredicate(e)
          THEN /\ waitRx' = NoRx
               /\ timerExpired' = FALSE
               /\ loadResult' = [loadResult EXCEPT ![i] = "ok"]
               /\ handshakeEvent' = [handshakeEvent EXCEPT ![i] = Some(e)]
               /\ runPc' = AfterLoad(i, TRUE)
               /\ loadIdx' = IF i < Len(LoadOrder) THEN i + 1 ELSE i
          ELSE /\ waitRx' = waitRx + 1
               /\ UNCHANGED <<runPc, loadIdx, loadResult, handshakeEvent, timerExpired>>
    /\ UNCHANGED <<messaging_plugin_tx, loaded_plugins, cancelled, plugin_tasks,
                   joining, sup, waitSub, destroyed>>
    /\ UNCHANGED <<shutdown_flag, loadedAtShutdown, shutdownDuring, reg, bridge, httpd, calc, wasm, preferences, plugin_dirs>>
    /\ UNCHANGED <<busVars, initSent>>

\* plugin_shared_data lib.rs:183 - the 10 s of tokio::time::timeout elapse.
TimerExpire ==
    /\ runPc = "wait"
    /\ ~timerExpired
    /\ timerExpired' = TRUE
    /\ UNCHANGED <<messaging_plugin_tx, loaded_plugins, cancelled, plugin_tasks,
                   joining, runPc, loadIdx, waitRx, sup, waitSub,
                   loadResult, handshakeEvent, destroyed>>
    /\ UNCHANGED <<shutdown_flag, loadedAtShutdown, shutdownDuring, reg, bridge, httpd, calc, wasm, preferences, plugin_dirs>>
    /\ UNCHANGED <<busVars, initSent>>

\* plugin_shared_data lib.rs:183 and plugins.rs:287-291 - the timeout polls
\* the loop first; with nothing left to receive and the timer elapsed the
\* wait yields None and load_plugin returns the init-timeout error.
WaitTimeout ==
    /\ runPc = "wait"
    /\ timerExpired
    /\ waitRx = Len(ptx[loadIdx])
    /\ waitRx' = NoRx
    /\ timerExpired' = FALSE
    /\ loadResult' = [loadResult EXCEPT ![loadIdx] = "init_timeout"]
    /\ runPc' = AfterLoad(loadIdx, FALSE)
    /\ loadIdx' = IF loadIdx < Len(LoadOrder) THEN loadIdx + 1 ELSE loadIdx
    /\ UNCHANGED <<messaging_plugin_tx, loaded_plugins, cancelled, plugin_tasks,
                   joining, sup, waitSub, handshakeEvent, destroyed>>
    /\ UNCHANGED <<shutdown_flag, loadedAtShutdown, shutdownDuring, reg, bridge, httpd, calc, wasm, preferences, plugin_dirs>>
    /\ UNCHANGED <<busVars, initSent>>

\* server.rs:91 and plugins.rs:296-297 - wait_for_all_plugins drains the
\* handles into a try_join_all future.
RunJoinStart ==
    /\ runPc = "join_start"
    /\ joining' = plugin_tasks
    /\ plugin_tasks' = {}
    /\ runPc' = "join"
    /\ UNCHANGED <<messaging_plugin_tx, loaded_plugins, cancelled, loadIdx, waitRx,
                   timerExpired, sup, initSent, waitSub, loadResult,
                   handshakeEvent, destroyed>>
    /\ UNCHANGED <<shutdown_flag, loadedAtShutdown, shutdownDuring, reg, bridge, httpd, calc, wasm, preferences, plugin_dirs>>
    /\ UNCHANGED <<busVars, initSent>>

\* server.rs:91-97 - the join of the loading branch is over (an error is only
\* logged) and run returns Ok.
RunJoinDone ==
    /\ runPc = "join"
    /\ TryJoinAllReady(joining)
    /\ joining' = {}
    /\ runPc' = "returned"
    /\ UNCHANGED <<messaging_plugin_tx, loaded_plugins, cancelled, plugin_tasks,
                   loadIdx, waitRx, timerExpired, sup, initSent, waitSub,
                   loadResult, handshakeEvent, destroyed>>
    /\ UNCHANGED <<shutdown_flag, loadedAtShutdown, shutdownDuring, reg, bridge, httpd, calc, wasm, preferences, plugin_dirs>>
    /\ UNCHANGED <<busVars, initSent>>

\* The await points at which the loading branch of run's select is pending.
LoadingBranchPending == runPc \in {"load", "construct", "wait", "join"}

\* server.rs:46-56 and plugins.rs:305-315 - the shutdown branch of run's
\* select sees the flag: the loading branch is dropped with everything it
\* holds (the wait's receiver, the handles inside a pending try_join_all) and
\* destroy() cancels the token of every record.
RunShutdown ==
    /\ shutdown_flag
    /\ LoadingBranchPending
    /\ waitRx' = NoRx
    /\ timerExpired' = FALSE
    /\ joining' = {}
    /\ cancelled' = [i \in Instances |-> cancelled[i] \/ i \in Range(loaded_plugins)]
    /\ runPc' = "final_join"
    /\ UNCHANGED <<messaging_plugin_tx, loaded_plugins, plugin_tasks, loadIdx, sup,
                   waitSub, loadResult, handshakeEvent, destroyed>>
    /\ UNCHANGED <<shutdown_flag, loadedAtShutdown, shutdownDuring, reg, bridge, httpd, calc, wasm, preferences, plugin_dirs>>
    /\ UNCHANGED <<busVars, initSent>>

\* server.rs:101-105 - the second wait_for_all_plugins, over the handles the
\* manager still holds; its result is ignored and run returns Ok.
RunFinalJoin ==
    /\ runPc = "final_join"
    /\ TryJoinAllReady(plugin_tasks)
    /\ plugin_tasks' = {}
    /\ runPc' = "goodbye"
    /\ UNCHANGED <<messaging_plugin_tx, loaded_plugins, cancelled, joining, loadIdx,
                   waitRx, timerExpired, sup, initSent, waitSub, loadResult,
                   handshakeEvent, destroyed>>
    /\ UNCHANGED <<shutdown_flag, loadedAtShutdown, shutdownDuring, reg, bridge, httpd, calc, wasm, preferences, plugin_dirs>>
    /\ UNCHANGED <<busVars, initSent>>

Next ==
    \/ \E i \in Instances, ty \in EventTypes, tg \in Targets : PluginDispatch(i, ty, tg)
    \/ DispSetRunning
    \/ DispSubscribe
    \/ DispRecv
    \/ DispExit
    \/ \E e \in fanTasks : FanOut(e)
    \/ \E t \in sendTasks : SendToPlugin(t[1], t[2])
    \/ \E i \in Instances : SupInitOk(i)
    \/ \E i \in Instances : SupInitErr(i)
    \/ \E i \in Instances : SupCancel(i)
    \/ \E i \in Instances : SupDestroyDone(i)
    \/ ShutdownSignal
    \/ InitMessagingLoop
    \/ LoadRegister
    \/ LoadConstructFail
    \/ LoadSpawn
    \/ LoadHandshakeStart
    \/ WaitRecv
    \/ TimerExpire
    \/ WaitTimeout
    \/ RunJoinStart
    \/ RunJoinDone
    \/ RunShutdown
    \/ RunFinalJoin

Spec == Init /\ [][Next]_vars

\* ------------------------------------------- concurrent registration calls
\* Everything of the server but the map of per-plugin senders.
serverVars == <<shutdown_flag, messaging_loop_running, loaded_plugins, cancelled,
                plugin_tasks, joining, glog, dispRx, dispPc, fanTasks, sendTasks,
                ptx, runPc, loadIdx, waitRx, timerExpired, sup, initSent, waitSub,
                loadResult, handshakeEvent, destroyed, loadedAtShutdown,
                shutdownDuring>>

\* messaging.rs:40-45 - caller c takes the read lock and tests contains_key;
\* the guard is released at the end of the condition.  An id that is present
\* makes the call return the already-registered error.
RegCheck(c, id) ==
    /\ reg[c].pc = "idle"
    /\ reg' = [reg EXCEPT ![c] =
                  [pc |-> IF AlreadyRegistered(messaging_plugin_tx, id)
                          THEN "err" ELSE "checked",
                   id |-> id]]
    /\ UNCHANGED <<messaging_plugin_tx, bridge, httpd, calc, wasm, preferences, plugin_dirs, serverVars>>

\* messaging.rs:47-52 - caller c takes the write lock, inserts its sender
\* and returns Ok.
RegInsert(c) ==
    /\ reg[c].pc = "checked"
    /\ messaging_plugin_tx' = InsertSender(messaging_plugin_tx, reg[c].id, c)
    /\ reg' = [reg EXCEPT ![c].pc = "ok"]
    /\ UNCHANGED <<bridge, httpd, calc, wasm, preferences, plugin_dirs, serverVars>>

NextReg ==
    \/ \E c \in RegCallers, id \in PluginIds : RegCheck(c, id)
    \/ \E c \in RegCallers : RegInsert(c)

SpecReg == Init /\ [][NextReg]_vars

\* ----------------------------------------------------------- the HTTP bridge
\* The server with its plugins loaded and running, LYServer::run waiting in
\* wait_for_all_plugins, the dispatcher idle in recv(): the http plugin has
\* sent its plugin_init, the two directory plugins were loaded past their
\* handshake timeout and the directory with the repeated id was refused.
InitEvent == LYServerMessageEvent(1, "plugin_init", All, Plugin(Id(1)))

InitBridge ==
    /\ shutdown_flag = FALSE
    /\ messaging_loop_running = TRUE
    /\ messaging_plugin_tx = (Id(1) :> 1) @@ (Id(2) :> 2) @@ (Id(3) :> 3)
    /\ loaded_plugins = <<1, 2, 3>>
    /\ cancelled = [i \in Instances |-> FALSE]
    /\ plugin_tasks = {}
    /\ joining = {DispatcherTask, SupervisorTask(1), SupervisorTask(2), SupervisorTask(3)}
    /\ glog = <<InitEvent>>
    /\ dispRx = 1
    /\ dispPc = "recv"
    /\ fanTasks = {}
    /\ sendTasks = {}
    /\ ptx = [i \in Instances |-> IF i = 1 THEN <<InitEvent>> ELSE << >>]
    /\ runPc = "join"
    /\ loadIdx = 4
    /\ waitRx = NoRx
    /\ timerExpired = FALSE
    /\ sup = [i \in Instances |-> IF i = 4 THEN "none" ELSE "init"]
    /\ initSent = [i \in Instances |-> i = 1]
    /\ waitSub = [i \in Instances |-> IF i = 4 THEN NoRx ELSE 0]
    /\ loadResult = [i \in Instances |->
                        IF i = 1 THEN "ok"
                        ELSE IF i = 4 THEN "already_registered" ELSE "init_timeout"]
    /\ handshakeEvent = [i \in Instances |-> IF i = 1 THEN Some(InitEvent) ELSE None]
    /\ destroyed = [i \in Instances |-> 0]
    /\ loadedAtShutdown = {}
    /\ shutdownDuring = "none"
    /\ reg = [c \in RegCallers |-> [pc |-> "idle", id |-> ""]]
    /\ bridge = [r \in Requests |-> BridgeIdle]
    /\ httpd = HttpLoopIdle
    /\ wasm = [i \in Instances |-> WasmIdle]
    /\ preferences = PreferencesIdle
    /\ plugin_dirs = ValidDirs
    /\ calc = CalcIdle

\* What the bridge leaves alone: everything but the global channel, the http
\* plugin's channel and its own position.
bridgeFrame == <<shutdown_flag, messaging_loop_running, messaging_plugin_tx,
                 loaded_plugins, cancelled, plugin_tasks, joining, dispRx, dispPc,
                 fanTasks, sendTasks, runPc, loadIdx, waitRx, timerExpired, sup,
                 initSent, waitSub, loadResult, handshakeEvent, destroyed,
                 loadedAtShutdown, shutdownDuring, reg, httpd, calc, wasm, preferences, plugin_dirs>>

\* plugin.rs:86-99 - create_event("http_request", All, ..) stamps the http
\* plugin's id as sender and a fresh event id; dispatch_event sends it on
\* the global channel, and an error ends the request with a 500.
BridgeDispatch(r) ==
    /\ bridge[r].pc = "idle"
    /\ LET msg == LYServerMessageEvent(generate(glog), "http_request", All, Plugin(Id(1)))
       IN IF GlobalSendOk
          THEN /\ glog' = Append(glog, msg)
               /\ bridge' = [bridge EXCEPT ![r].pc = "dispatched", ![r].req = Some(msg),
                                           ![r].dispAt = Len(ptx[1])]
          ELSE /\ bridge' = [bridge EXCEPT ![r].pc = "dispatch_err"]
               /\ UNCHANGED glog
    /\ UNCHANGED <<ptx, bridgeFrame>>

\* plugin.rs:107-112 and 118-123 - the bridge calls wait_until_event, which
\* subscribes its receiver (plugin_shared_data lib.rs:163-166) and starts the
\* timeout: first for the intent, then, an intent accepted, for the response.
BridgeWaitSubscribe(r) ==
    /\ bridge[r].pc \in {"dispatched", "between"}
    /\ bridge' = IF bridge[r].pc = "dispatched"
                 THEN [bridge EXCEPT ![r].pc = "wait1", ![r].timer = FALSE,
                                     ![r].rx = WaitUntilSubscribe(ptx[1]),
                                     ![r].sub1 = Len(ptx[1])]
                 ELSE [bridge EXCEPT ![r].pc = "wait2", ![r].timer = FALSE,
                                     ![r].rx = WaitUntilSubscribe(ptx[1]),
                                     ![r].sub2 = Len(ptx[1])]
    /\ UNCHANGED <<glog, ptx, bridgeFrame>>

\* plugin.rs:109 and 120 - the predicates of the two waits.
IntentPredicate(e, msg_id) ==
    e.event_type = "http_request_handle_intent" /\ e.event_id = msg_id

ResponsePredicate_AnyId(e, msg_id) == e.event_type = "http_response"

ResponsePredicate(e, msg_id) ==
    e.event_type = "http_response" /\ e.event_id = msg_id

\* plugin_shared_data lib.rs:168-181 - one turn of the wait's loop: a lagged
\* receiver is moved to the oldest retained value, a rejected event is
\* passed over, an accepted one ends the wait.
BridgeWaitRecv(r) ==
    /\ bridge[r].pc \in {"wait1", "wait2"}
    /\ bridge[r].rx < Len(ptx[1])
    /\ LET e == ptx[1][bridge[r].rx + 1]
           id == bridge[r].req[1].event_id
       IN bridge' =
            IF Lagged(bridge[r].rx, ptx[1], PluginCap)
            THEN [bridge EXCEPT ![r].rx = Len(ptx[1]) - PluginCap]
            ELSE IF bridge[r].pc = "wait1" /\ IntentPredicate(e, id)
            THEN [bridge EXCEPT ![r].pc = "between", ![r].intent = Some(e), ![r].rx = NoRx]
            ELSE IF bridge[r].pc = "wait2" /\ ResponsePredicate(e, id)
            THEN [bridge EXCEPT ![r].pc = "replied", ![r].reply = Some(e), ![r].rx = NoRx,
                                ![r].endAt = Len(ptx[1])]
            ELSE [bridge EXCEPT ![r].rx = @ + 1]
    /\ UNCHANGED <<glog, ptx, bridgeFrame>>

\* plugin_shared_data lib.rs:183 - the timeout of the wait elapses (5 s for
\* the intent, 60 s for the response).
BridgeTimerExpire(r) ==
    /\ bridge[r].pc \in {"wait1", "wait2"}
    /\ ~bridge[r].timer
    /\ bridge' = [bridge EXCEPT ![r].timer = TRUE]
    /\ UNCHANGED <<glog, ptx, bridgeFrame>>

\* plugin.rs:126-131 - the wait returned None: the request is answered with
\* the error.
BridgeWaitTimeout(r) ==
    /\ bridge[r].pc \in {"wait1", "wait2"}
    /\ bridge[r].timer
    /\ bridge[r].rx = Len(ptx[1])
    /\ bridge' = [bridge EXCEPT ![r].rx = NoRx, ![r].endAt = Len(ptx[1]),
                                ![r].pc = IF bridge[r].pc = "wait1" THEN "no_intent"
                                          ELSE "response_timeout"]
    /\ UNCHANGED <<glog, ptx, bridgeFrame>>

\* The requests whose bridge is between its dispatch and its answer.
InFlight == {r \in Requests : bridge[r].pc \in {"dispatched", "wait1", "between", "wait2"}}

\* The events plugins send about HTTP requests: intents and responses made
\* with reply() (messaging_shared lib.rs:24-32: the id of the request, the
\* target its sender) for a request in flight.
BridgeReplies ==
    {LYServerMessageEvent(bridge[r].req[1].event_id, ty, Plugin(Id(1)), Plugin(Id(i))) :
        r \in InFlight,
        ty \in {"http_request_handle_intent", "http_response"},
        i \in {2, 3}}

\* plugins.rs:84-90 - a send task of the dispatcher sends a plugin's reply on
\* the http plugin's sender, while a request is being handled.
BridgeArrive(e) ==
    /\ Len(ptx[1]) - Len(<<InitEvent>>) < MaxArrivals
    /\ ptx' = [ptx EXCEPT ![1] = Append(@, e)]
    /\ UNCHANGED <<glog, bridge, bridgeFrame>>

NextBridge ==
    \/ \E r \in Requests :
          \/ BridgeDispatch(r)
          \/ BridgeWaitSubscribe(r)
          \/ BridgeWaitRecv(r)
          \/ BridgeTimerExpire(r)
          \/ BridgeWaitTimeout(r)
    \/ \E e \in BridgeReplies : BridgeArrive(e)

SpecBridge == InitBridge /\ [][NextBridge]_vars

\* ------------------------------------------------- the built-in http plugin
\* The server once the built-in plugins are loaded and before a plugin of
\* the plugins directory is (an empty directory leaves it there): the http
\* plugin has sent its plugin_init and completed its handshake, its HTTP
\* server accepts requests and its event loop waits in receive_event.
InitHttpServer ==
    /\ shutdown_flag = FALSE
    /\ messaging_loop_running = TRUE
    /\ messaging_plugin_tx = (Id(1) :> 1)
    /\ loaded_plugins = <<1>>
    /\ cancelled = [i \in Instances |-> FALSE]
    /\ plugin_tasks = {DispatcherTask, SupervisorTask(1)}
    /\ joining = {}
    /\ glog = <<InitEvent>>
    /\ dispRx = 1
    /\ dispPc = "recv"
    /\ fanTasks = {}
    /\ sendTasks = {}
    /\ ptx = [i \in Instances |-> IF i = 1 THEN <<InitEvent>> ELSE << >>]
    /\ runPc = "load"
    /\ loadIdx = 2
    /\ waitRx = NoRx
    /\ timerExpired = FALSE
    /\ sup = [i \in Instances |-> IF i = 1 THEN "init" ELSE "none"]
    /\ initSent = [i \in Instances |-> i = 1]
    /\ waitSub = [i \in Instances |-> IF i = 1 THEN 0 ELSE NoRx]
    /\ loadResult = [i \in Instances |-> IF i = 1 THEN "ok" ELSE "none"]
    /\ handshakeEvent = [i \in Instances |-> IF i = 1 THEN Some(InitEvent) ELSE None]
    /\ destroyed = [i \in Instances |-> 0]
    /\ loadedAtShutdown = {}
    /\ shutdownDuring = "none"
    /\ reg = [c \in RegCallers |-> [pc |-> "idle", id |-> ""]]
    /\ bridge = [r \in Requests |-> BridgeIdle]
    /\ httpd = [pc |-> "recv", rx |-> Subscribe(<<InitEvent>>), handlers |-> {}, seen |-> {}]
    /\ wasm = [i \in Instances |-> WasmIdle]
    /\ preferences = PreferencesIdle
    /\ calc = CalcIdle

InitHttp == InitHttpServer /\ plugin_dirs = ValidDirs

\* The requests the clients send: GET /status first, every further one a
\* GET of a path that no plugin has a route for.
RequestUri(r) == IF r = 1 THEN "/status" ELSE "/nowhere"

\* The request carried by an http_request event (its data, plugin.rs:78-87).
RequestOf(e) == CHOOSE r \in Requests : bridge[r].req = Some(e)

\* http lib.rs:31-63 - the routes of the http plugin's router (all GET).
RouterResponds(uri) == uri \in {"/", "/status", "/favicon.ico"}

\* http lib.rs:33-58 with http_shared lib.rs:28 - the status code of the
\* router's response: 200 by default, 404 for the favicon.
RouterStatus(uri) == IF uri = "/favicon.ico" THEN 404 ELSE 200

\* The reply with a fresh event id instead of the original one.
reply_FreshId(E, t, s) ==
    LYServerMessageEvent(E.event_id + 1, t, E.event_sender, s)

\* messaging_shared lib.rs:24-32 - LYServerMessageEvent::reply.
reply(E, t, s) ==
    LYServerMessageEvent(E.event_id, t, E.event_sender, s)

\* What the http plugin's loop and handlers leave alone.
httpFrame == <<shutdown_flag, messaging_loop_running, messaging_plugin_tx,
               loaded_plugins, cancelled, plugin_tasks, joining, dispRx, dispPc,
               fanTasks, sendTasks, ptx, runPc, loadIdx, waitRx, timerExpired, sup,
               initSent, waitSub, loadResult, handshakeEvent, destroyed,
               loadedAtShutdown, shutdownDuring, reg, bridge, calc, wasm, preferences, plugin_dirs>>

\* http lib.rs:104 with plugin_shared_data lib.rs:121-123 - receive_event
\* subscribes a fresh receiver on the plugin's channel.
HttpLoopSubscribe ==
    /\ httpd.pc = "subscribe"
    /\ httpd' = [httpd EXCEPT !.pc = "recv", !.rx = Subscribe(ptx[1])]
    /\ UNCHANGED <<glog, httpFrame>>

\* http lib.rs:104-116 with plugin_shared_data lib.rs:125-132 - recv()
\* completes and the receiver is dropped.  Ok: an http_request gets a
\* spawned handler task, and the loop calls receive_event again.
\* Err(Lagged): receive_event returns None, the loop ends.
HttpLoopRecv ==
    /\ httpd.pc = "recv"
    /\ httpd.rx < Len(ptx[1])
    /\ LET e == ptx[1][httpd.rx + 1]
       IN httpd' =
            IF Lagged(httpd.rx, ptx[1], PluginCap)
            THEN [httpd EXCEPT !.pc = "done", !.rx = NoRx]
            ELSE [httpd EXCEPT !.pc = "subscribe", !.rx = NoRx,
                               !.handlers = IF e.event_type = "http_request"
                                            THEN @ \cup {e} ELSE @,
                               !.seen = @ \cup {e}]
    /\ UNCHANGED <<glog, httpFrame>>

\* http lib.rs:26-68 - handle_http_request: the router answers a request it
\* has a route for, and the answer is dispatched as the http_response reply
\* to the request event (plugin_shared_data lib.rs:135-154); no other event
\* is sent.
HttpHandleRequest(e) ==
    /\ e \in httpd.handlers
    /\ httpd' = [httpd EXCEPT !.handlers = @ \ {e}]
    /\ glog' = IF RouterResponds(RequestUri(RequestOf(e))) /\ GlobalSendOk
               THEN Append(glog, reply(e, "http_response", Plugin(Id(1))))
               ELSE glog
    /\ UNCHANGED httpFrame

\* The status taken from the route whatever the outcome of the waits.
BridgeStatus_Passthrough(r) == RouterStatus(RequestUri(r))

\* plugin.rs:134-178 - the status of the HTTP answer of a finished bridge:
\* the status code of the accepted response, 500 for an error.
BridgeStatus(r) ==
    IF bridge[r].pc = "replied" THEN RouterStatus(RequestUri(r)) ELSE 500

BridgeAnswered(r) ==
    bridge[r].pc \in {"replied", "no_intent", "response_timeout", "dispatch_err"}

NextHttp ==
    \/ \E r \in Requests :
          \/ BridgeDispatch(r)
          \/ BridgeWaitSubscribe(r)
          \/ BridgeWaitRecv(r)
          \/ BridgeTimerExpire(r)
          \/ BridgeWaitTimeout(r)
    \/ DispSubscribe
    \/ DispRecv
    \/ \E e \in fanTasks : FanOut(e)
    \/ \E t \in sendTasks : SendToPlugin(t[1], t[2])
    \/ HttpLoopSubscribe
    \/ HttpLoopRecv
    \/ \E e \in httpd.handlers : HttpHandleRequest(e)

SpecHttp == InitHttp /\ [][NextHttp]_vars

\* ------------------------------------------------------ a burst of events
\* The running plugins dispatch up to MaxBurst events while the dispatcher
\* task is scheduled at any pace: the bus alone, from the state with all
\* plugins loaded.
BurstDispatch(i, ty, tg) ==
    /\ Len(glog) < MaxBurst
    /\ DispatchEvent(i, ty, tg)

NextBus ==
    \/ \E i \in Instances, ty \in EventTypes, tg \in Targets : BurstDispatch(i, ty, tg)
    \/ DispSubscribe
    \/ DispRecv
    \/ \E e \in fanTasks : FanOut(e)
    \/ \E t \in sendTasks : SendToPlugin(t[1], t[2])

SpecBus == InitBridge /\ [][NextBus]_vars

\* ---------------------------------------------------------- WASM plugins
\* What a step inside a WASM plugin leaves alone.
wasmFrame == <<serverVars, messaging_plugin_tx, reg, bridge, httpd, calc, preferences, plugin_dirs>>

\* The instances made by the WASM loader.
WasmInstances == Instances \ BuiltIn

\* tokio::sync::Mutex<Store>::lock() completes only while no guard exists.
StoreFree_Always(w) == TRUE

StoreFree(w) == w.lock = "free"

\* plugins.rs:254 with plugin_impl.rs:80-91 - the supervisor's select polls
\* plugin.init(), which spawns the task that will call the guest's init.
WasmInitSpawn(i) ==
    /\ ~RunOver
    /\ sup[i] = "init"
    /\ wasm[i].initTask = "none"
    /\ wasm' = [wasm EXCEPT ![i].initTask = "waiting"]
    /\ UNCHANGED wasmFrame

\* plugin_impl.rs:86-88 - the init task gets the store and enters the guest.
WasmInitLock(i) ==
    /\ ~RunOver
    /\ wasm[i].initTask = "waiting"
    /\ StoreFree(wasm[i])
    /\ wasm' = [wasm EXCEPT ![i].initTask = "running", ![i].lock = "init"]
    /\ UNCHANGED wasmFrame

\* wasm_loader lib.rs:179-213 - the guest's init sends an event through
\* the send import.
GuestSend(i, ty, tg) ==
    /\ wasm[i].initTask = "running"
    /\ PluginDispatch(i, ty, tg)

\* wasm_loader lib.rs:131-144 with plugin_shared_data lib.rs:120-123 - the
\* guest's init calls the receive import, which subscribes and waits.
GuestReceiveCall(i) ==
    /\ ~RunOver
    /\ wasm[i].initTask = "running"
    /\ wasm' = [wasm EXCEPT ![i].initTask = "receive", ![i].initRx = Subscribe(ptx[i])]
    /\ UNCHANGED wasmFrame

\* wasm_loader lib.rs:144-174 - recv() completes (an event, or None after a
\* lag); the import hands the outcome to the guest, whose init goes on.
GuestReceiveReturn(i) ==
    /\ ~RunOver
    /\ wasm[i].initTask = "receive"
    /\ wasm[i].initRx < Len(ptx[i])
    /\ wasm' = [wasm EXCEPT ![i].initTask = "running", ![i].initRx = NoRx]
    /\ UNCHANGED wasmFrame

\* The ptr/len range of an import call lies inside the guest's memory.
InBounds(ptr, len) == ptr + len <= MemSize

\* wasm_loader lib.rs:40-52, 58-71, 192-194 - an import called by the
\* guest's init reads mem.data(&caller)[start..end]: a range outside the
\* memory makes the slice index panic inside the init task, whose store
\* guard is dropped by the unwinding; init() then returns the Err made of
\* the JoinError (plugin_impl.rs:93-96).
GuestImportCall(i, ptr, len) ==
    /\ ~RunOver
    /\ wasm[i].initTask = "running"
    /\ wasm[i].faults = 0
    /\ ~InBounds(ptr, len)
    /\ wasm' = [wasm EXCEPT ![i].initTask = "err", ![i].lock = "free",
                            ![i].faults = @ + 1]
    /\ UNCHANGED wasmFrame

\* plugin_impl.rs:88-96 - the guest's init export returns; the task drops
\* its guard and init() has its Ok.
GuestInitReturn(i) ==
    /\ ~RunOver
    /\ wasm[i].initTask = "running"
    /\ wasm' = [wasm EXCEPT ![i].initTask = "ok", ![i].lock = "free"]
    /\ UNCHANGED wasmFrame

\* plugins.rs:254-261 - the select's init branch completes with the result
\* of the init task.
WasmSupInitOk(i) ==
    /\ wasm[i].initTask = "ok"
    /\ SupInitOk(i)

WasmSupInitErr(i) ==
    /\ wasm[i].initTask = "err"
    /\ SupInitErr(i)

\* plugins.rs:265 with plugin_impl.rs:99-110 - the supervisor, its token
\* cancelled, calls destroy(), which spawns the task that will call the
\* guest's destroy.  The init task spawned before is not stopped by the
\* drop of the init future.
WasmDestroySpawn(i) ==
    /\ ~RunOver
    /\ sup[i] = "destroying"
    /\ wasm[i].destroyTask = "none"
    /\ wasm' = [wasm EXCEPT ![i].destroyTask = "waiting"]
    /\ UNCHANGED wasmFrame

\* plugin_impl.rs:105-107 - the destroy task gets the store and enters the
\* guest.
WasmDestroyLock(i) ==
    /\ ~RunOver
    /\ wasm[i].destroyTask = "waiting"
    /\ StoreFree(wasm[i])
    /\ wasm' = [wasm EXCEPT ![i].destroyTask = "running", ![i].lock = "destroy"]
    /\ UNCHANGED wasmFrame

\* plugin_impl.rs:107-115 - the guest's destroy export returns.
WasmDestroyReturn(i) ==
    /\ ~RunOver
    /\ wasm[i].destroyTask = "running"
    /\ wasm' = [wasm EXCEPT ![i].destroyTask = "done", ![i].lock = "free"]
    /\ UNCHANGED wasmFrame

\* plugins.rs:265-271 - destroy() has returned: unload, the task ends.
WasmSupDestroyDone(i) ==
    /\ wasm[i].destroyTask = "done"
    /\ SupDestroyDone(i)

\* plugin_impl.rs:107-115 - the guest's destroy export traps: call_async
\* returns its Err, the task drops its guard and destroy() returns the Err.
WasmDestroyFail(i) ==
    /\ ~RunOver
    /\ wasm[i].destroyTask = "running"
    /\ wasm' = [wasm EXCEPT ![i].destroyTask = "err", ![i].lock = "free"]
    /\ UNCHANGED wasmFrame

\* The supervisor passing the Err of destroy() on as a panic.
AfterDestroy_Propagate(result) == IF result = "err" THEN "panicked" ELSE "done"

\* plugins.rs:265-275 - what the supervisor task ends as after destroy():
\* the Err is logged, the Ok is logged, and the task returns Ok(()).
AfterDestroy(result) == "done"

\* plugins.rs:265-275 - destroy() has returned its Err: it is logged, the
\* record is unloaded and the task ends.
WasmSupDestroyErr(i) ==
    /\ ~RunOver
    /\ wasm[i].destroyTask = "err"
    /\ sup[i] = "destroying"
    /\ loaded_plugins' = RemoveRecord(loaded_plugins, i)
    /\ sup' = [sup EXCEPT ![i] = AfterDestroy("err")]
    /\ UNCHANGED <<messaging_plugin_tx, cancelled, plugin_tasks,
                   joining, runPc, loadIdx, waitRx, timerExpired, waitSub, loadResult, handshakeEvent, destroyed>>
    /\ UNCHANGED <<shutdown_flag, loadedAtShutdown, shutdownDuring, reg, bridge, httpd, calc, wasm, preferences, plugin_dirs>>
    /\ UNCHANGED <<busVars, initSent>>

\* The host with its WASM plugins: supervisors, guests, the bus, shutdown.
NextWasm ==
    \/ \E i \in WasmInstances :
          \/ WasmInitSpawn(i)
          \/ WasmInitLock(i)
          \/ \E ty \in EventTypes, tg \in Targets : GuestSend(i, ty, tg)
          \/ GuestReceiveCall(i)
          \/ GuestReceiveReturn(i)
          \/ \E ptr \in 0..MemSize, len \in 0..MemSize : GuestImportCall(i, ptr, len)
          \/ GuestInitReturn(i)
          \/ WasmSupInitOk(i)
          \/ WasmSupInitErr(i)
          \/ SupCancel(i)
          \/ WasmDestroySpawn(i)
          \/ WasmDestroyLock(i)
          \/ WasmDestroyReturn(i)
          \/ WasmSupDestroyDone(i)
    \/ \E i \in BuiltIn : SupCancel(i) \/ SupDestroyDone(i)
    \/ DispSubscribe
    \/ DispRecv
    \/ DispExit
    \/ \E e \in fanTasks : FanOut(e)
    \/ \E t \in sendTasks : SendToPlugin(t[1], t[2])
    \/ ShutdownSignal
    \/ LoadRegister
    \/ RunJoinStart
    \/ RunShutdown
    \/ RunJoinDone
    \/ RunFinalJoin

\* The server while LYServer::run is still loading the plugin directory: the
\* built-in http plugin and two directory plugins are loaded (the latter past
\* their handshake timeout), the directory with the repeated id is next, and
\* the handles of the dispatcher and of the three supervisors are in
\* plugin_tasks.
InitWasmServer ==
    /\ shutdown_flag = FALSE
    /\ messaging_loop_running = TRUE
    /\ messaging_plugin_tx = (Id(1) :> 1) @@ (Id(2) :> 2) @@ (Id(3) :> 3)
    /\ loaded_plugins = <<1, 2, 3>>
    /\ cancelled = [i \in Instances |-> FALSE]
    /\ plugin_tasks = {DispatcherTask, SupervisorTask(1), SupervisorTask(2), SupervisorTask(3)}
    /\ joining = {}
    /\ glog = <<InitEvent>>
    /\ dispRx = 1
    /\ dispPc = "recv"
    /\ fanTasks = {}
    /\ sendTasks = {}
    /\ ptx = [i \in Instances |-> IF i = 1 THEN <<InitEvent>> ELSE << >>]
    /\ runPc = "load"
    /\ loadIdx = 4
    /\ waitRx = NoRx
    /\ timerExpired = FALSE
    /\ sup = [i \in Instances |-> IF i = 4 THEN "none" ELSE "init"]
    /\ initSent = [i \in Instances |-> i = 1]
    /\ waitSub = [i \in Instances |-> IF i = 4 THEN NoRx ELSE 0]
    /\ loadResult = [i \in Instances |->
                        IF i = 1 THEN "ok"
                        ELSE IF i = 4 THEN "none" ELSE "init_timeout"]
    /\ handshakeEvent = [i \in Instances |-> IF i = 1 THEN Some(InitEvent) ELSE None]
    /\ destroyed = [i \in Instances |-> 0]
    /\ loadedAtShutdown = {}
    /\ shutdownDuring = "none"
    /\ reg = [c \in RegCallers |-> [pc |-> "idle", id |-> ""]]
    /\ bridge = [r \in Requests |-> BridgeIdle]
    /\ httpd = HttpLoopIdle
    /\ wasm = [i \in Instances |-> WasmIdle]
    /\ preferences = PreferencesIdle
    /\ plugin_dirs = ValidDirs

InitWasm == InitWasmServer /\ calc = CalcIdle

SpecWasm == InitWasm /\ [][NextWasm]_vars

\* The steps of the host that the runtime is bound to take once they are
\* possible: a task waiting for a free mutex gets it, a pending recv() with
\* a value completes, a spawned task runs, a guest's destroy returns.  What
\* a guest's init does, and whether a shutdown is requested, is left open.
WasmFairness ==
    /\ \A i \in WasmInstances :
          /\ WF_vars(WasmInitSpawn(i))
          /\ WF_vars(WasmInitLock(i))
          /\ WF_vars(GuestReceiveReturn(i))
          /\ WF_vars(WasmSupInitOk(i))
          /\ WF_vars(WasmSupInitErr(i))
          /\ WF_vars(SupCancel(i))
          /\ WF_vars(WasmDestroySpawn(i))
          /\ WF_vars(WasmDestroyLock(i))
          /\ WF_vars(WasmDestroyReturn(i))
          /\ WF_vars(WasmSupDestroyDone(i))
    /\ WF_vars(DispSubscribe)
    /\ WF_vars(DispRecv)
    /\ WF_vars(\E e \in fanTasks : FanOut(e))
    /\ WF_vars(\E t \in sendTasks : SendToPlugin(t[1], t[2]))
    /\ WF_vars(LoadRegister)
    /\ WF_vars(RunJoinStart)
    /\ WF_vars(RunShutdown)
    /\ WF_vars(RunJoinDone)
    /\ WF_vars(RunFinalJoin)

SpecWasmLive == SpecWasm /\ WasmFairness

\* ------------------------------------------------- calls into a WASM store
\* handle_message_event has no caller in the host; the calls below are the
\* ones a user of the LYServerPlugin trait makes with an event of the bus.

\* plugin_impl.rs:118-130 - handle_message_event is called with an event:
\* the event is serialized and the caller waits for the store.
HandleCall(i, e) ==
    /\ ~RunOver
    /\ i \in Range(loaded_plugins)
    /\ wasm[i].handleCall = "none"
    /\ wasm' = [wasm EXCEPT ![i].handleCall = "alloc_wait", ![i].handleEvent = Some(e)]
    /\ UNCHANGED wasmFrame

\* plugin_impl.rs:129-155 - the caller gets the store and calls the guest's
\* alloc export.
HandleAllocLock(i) ==
    /\ ~RunOver
    /\ wasm[i].handleCall = "alloc_wait"
    /\ StoreFree(wasm[i])
    /\ wasm' = [wasm EXCEPT ![i].handleCall = "alloc", ![i].lock = "alloc"]
    /\ UNCHANGED wasmFrame

\* plugin_impl.rs:150-170 - alloc returns; the event is written into the
\* guest's memory and the guard is dropped at the end of the block (ok), or
\* alloc or the write fails and the ? returns the Err, dropping the guard.
HandleAllocReturn(i, ok) ==
    /\ ~RunOver
    /\ wasm[i].handleCall = "alloc"
    /\ wasm' = [wasm EXCEPT ![i].handleCall = IF ok THEN "handle_wait" ELSE "none",
                            ![i].handleEvent = IF ok THEN @ ELSE None,
                            ![i].lock = "free"]
    /\ UNCHANGED wasmFrame

\* plugin_impl.rs:172-175 - the spawned task gets the store and calls the
\* guest's handle_message_event export.
HandleLock(i) ==
    /\ ~RunOver
    /\ wasm[i].handleCall = "handle_wait"
    /\ StoreFree(wasm[i])
    /\ wasm' = [wasm EXCEPT ![i].handleCall = "handling", ![i].lock = "handle"]
    /\ UNCHANGED wasmFrame

\* plugin_impl.rs:175-190 - the export returns, the task ends and
\* handle_message_event returns its result.
HandleReturn(i) ==
    /\ ~RunOver
    /\ wasm[i].handleCall = "handling"
    /\ wasm' = [wasm EXCEPT ![i].handleCall = "none", ![i].handleEvent = None,
                            ![i].handled = @ \cup {wasm[i].handleEvent[1]},
                            ![i].lock = "free"]
    /\ UNCHANGED wasmFrame

\* plugin_impl.rs:80-191 - the host-initiated guest calls that are inside
\* the store of a plugin: init (also while it waits in an import), destroy,
\* the alloc made for an event, handle_message_event.
Executing(w) ==
    (IF w.initTask \in {"running", "receive"} THEN {"init"} ELSE {})
    \cup (IF w.destroyTask = "running" THEN {"destroy"} ELSE {})
    \cup (IF w.handleCall = "alloc" THEN {"alloc"} ELSE {})
    \cup (IF w.handleCall = "handling" THEN {"handle"} ELSE {})

\* The plugin whose store is followed: the first directory plugin.
StoreInstances == {2}

\* The WASM plugins with every kind of host call into their stores, under
\* the supervisors and a shutdown.
NextStore ==
    \/ \E i \in StoreInstances :
          \/ WasmInitSpawn(i)
          \/ WasmInitLock(i)
          \/ GuestReceiveCall(i)
          \/ GuestReceiveReturn(i)
          \/ \E ptr \in 0..MemSize, len \in 0..MemSize : GuestImportCall(i, ptr, len)
          \/ GuestInitReturn(i)
          \/ WasmSupInitOk(i)
          \/ WasmSupInitErr(i)
          \/ SupCancel(i)
          \/ WasmDestroySpawn(i)
          \/ WasmDestroyLock(i)
          \/ WasmDestroyReturn(i)
          \/ WasmSupDestroyDone(i)
          \/ WasmDestroyFail(i)
          \/ WasmSupDestroyErr(i)
          \/ \E e \in Range(glog) : HandleCall(i, e)
          \/ HandleAllocLock(i)
          \/ \E ok \in BOOLEAN : HandleAllocReturn(i, ok)
          \/ HandleLock(i)
          \/ HandleReturn(i)
    \/ \E i \in StoreInstances : GuestSend(i, "plugin_init", All)
    \/ \E i \in BuiltIn : SupCancel(i) \/ SupDestroyDone(i)
    \/ \E i \in WasmInstances \ StoreInstances :
          SupCancel(i) \/ WasmDestroySpawn(i) \/ WasmDestroyLock(i)
          \/ WasmDestroyReturn(i) \/ WasmSupDestroyDone(i)
    \/ DispSubscribe
    \/ DispRecv
    \/ DispExit
    \/ \E e \in fanTasks : FanOut(e)
    \/ \E t \in sendTasks : SendToPlugin(t[1], t[2])
    \/ ShutdownSignal
    \/ RunShutdown
    \/ RunFinalJoin

SpecStore == InitWasm /\ [][NextStore]_vars

\* ------------------------------------------------------- functions on events
\* What the application of a function leaves alone.
calcFrame == <<serverVars, messaging_plugin_tx, reg, bridge, httpd, wasm, preferences, plugin_dirs>>

\* The events replies are made to.
ChainEvents ==
    {LYServerMessageEvent(id, ty, tg, Plugin(p)) :
        id \in 1..MaxEvents, ty \in EventTypes \cup {"http_request"},
        tg \in {All} \cup {Plugin(q) : q \in PluginIds}, p \in PluginIds}

ReplyTypes == {"http_response", "http_request_handle_intent"}

\* An originating event is picked; no reply has been made yet.
InitReply ==
    /\ InitServer
    /\ calc \in {[op |-> "reply", origin |-> E, chain |-> << >>] : E \in ChainEvents}

\* The event the next reply of the chain is made to.
ChainLast == IF calc.chain = << >> THEN calc.origin ELSE calc.chain[Len(calc.chain)].out

\* messaging_shared lib.rs:24-32 - E.reply(t, s, d) applied to the last
\* event of the chain.
ReplyStep(t, s) ==
    /\ calc.op = "reply"
    /\ Len(calc.chain) < MaxChain
    /\ calc' = [calc EXCEPT !.chain =
                   Append(@, [from |-> ChainLast, t |-> t, s |-> s,
                              out |-> reply(ChainLast, t, s)])]
    /\ UNCHANGED calcFrame

\* plugin_shared_data lib.rs:135-154 - reply_event of the plugin with id
\* pid: the reply is made with the plugin as sender.
ReplyEventStep(t, pid) ==
    /\ calc.op = "reply"
    /\ Len(calc.chain) < MaxChain
    /\ calc' = [calc EXCEPT !.chain =
                   Append(@, [from |-> ChainLast, t |-> t, s |-> Plugin(pid),
                              out |-> reply(ChainLast, t, Plugin(pid))])]
    /\ UNCHANGED calcFrame

NextReply ==
    \/ \E t \in ReplyTypes, s \in {All} \cup {Plugin(q) : q \in PluginIds} : ReplyStep(t, s)
    \/ \E t \in ReplyTypes, pid \in PluginIds : ReplyEventStep(t, pid)

SpecReply == InitReply /\ [][NextReply]_vars

\* ------------------------------------------------- targets and their strings
\* messaging_shared lib.rs:86-93 - ToString for LYServerMessageEventTarget
\* (From<LYServerMessageEventTarget> for String, 95-99, calls it).
to_string(t) == IF t.tag = "All" THEN "all" ELSE t.id

\* messaging_shared lib.rs:101-105 - From<String>.
from_string(s) == Plugin(s)

\* messaging_shared lib.rs:107-111 - From<&str>.
from_str(s) == Plugin(s)

\* The targets converted: All, the plugins, and plugins named by the
\* strings an event may carry in place of an id.
TargetStrings == PluginIds \cup {"all", ""}
TargetValues == {All} \cup {Plugin(s) : s \in TargetStrings}

\* messaging_shared lib.rs:113-131 - LYServerMessageEvent::new takes the
\* target and the sender of an event as anything convertible into a target:
\* a pair of targets is picked, neither converted yet.
InitTarget ==
    /\ InitServer
    /\ calc \in {[op |-> "convert", t |-> <<a, b>>, str |-> <<None, None>>,
                   via |-> <<"", "">>, back |-> <<None, None>>] : a \in TargetValues, b \in TargetValues}

\* The k-th target is converted to its string form.
ToStringStep(k) ==
    /\ calc.op = "convert"
    /\ calc.str[k] = None
    /\ calc' = [calc EXCEPT !.str[k] = Some(to_string(calc.t[k]))]
    /\ UNCHANGED calcFrame

\* The string form of the k-th target is converted back from a String.
FromStringStep(k) ==
    /\ calc.op = "convert"
    /\ calc.str[k] # None
    /\ calc.back[k] = None
    /\ calc' = [calc EXCEPT !.back[k] = Some(from_string(calc.str[k][1])),
                            !.via[k] = "String"]
    /\ UNCHANGED calcFrame

\* The string form of the k-th target is converted back from a &str.
FromStrStep(k) ==
    /\ calc.op = "convert"
    /\ calc.str[k] # None
    /\ calc.back[k] = None
    /\ calc' = [calc EXCEPT !.back[k] = Some(from_str(calc.str[k][1])),
                            !.via[k] = "&str"]
    /\ UNCHANGED calcFrame

NextTarget ==
    \E k \in 1..2 : ToStringStep(k) \/ FromStringStep(k) \/ FromStrStep(k)

SpecTarget == InitTarget /\ [][NextTarget]_vars

\* ------------------------------------------------ plugins of the directory
\* What a plugin path may hold: one case for each check of
\* load_plugin_from_path that fails, and a complete plugin.
DirStates ==
    {[is_dir |-> FALSE, manifest |-> "missing", wasm_exists |-> FALSE],
     [is_dir |-> TRUE, manifest |-> "missing", wasm_exists |-> FALSE],
     [is_dir |-> TRUE, manifest |-> "unparsable", wasm_exists |-> FALSE],
     [is_dir |-> TRUE, manifest |-> "no_entry_point", wasm_exists |-> FALSE],
     [is_dir |-> TRUE, manifest |-> "ok", wasm_exists |-> FALSE],
     ValidDir}

\* The check of the wasm file left out.
PathError_NoWasmCheck(dir) ==
    IF ~dir.is_dir THEN "not_a_directory"
    ELSE IF dir.manifest = "missing" THEN "manifest_not_found"
    ELSE IF dir.manifest = "unparsable" THEN "manifest_parse"
    ELSE IF dir.manifest = "no_entry_point" THEN "missing_wasm_entry_point"
    ELSE "ok"

\* plugins.rs:152-190 - the Err load_plugin_from_path returns before it
\* calls load_plugin, or "ok" when it gets to the call.
PathError(dir) ==
    IF ~dir.is_dir THEN "not_a_directory"
    ELSE IF dir.manifest = "missing" THEN "manifest_not_found"
    ELSE IF dir.manifest = "unparsable" THEN "manifest_parse"
    ELSE IF dir.manifest = "no_entry_point" THEN "missing_wasm_entry_point"
    ELSE IF ~dir.wasm_exists THEN "wasm_entry_not_found"
    ELSE "ok"

PathErrors ==
    {"not_a_directory", "manifest_not_found", "manifest_parse",
     "missing_wasm_entry_point", "wasm_entry_not_found"}

\* plugins.rs:128-134, 152-190 - load_plugin_from_path returns its Err for
\* the next plugin path; init logs it and goes on with the next path.
LoadFromPathErr ==
    /\ runPc = "load"
    /\ loadIdx \notin BuiltIn
    /\ PathError(plugin_dirs[loadIdx]) # "ok"
    /\ LET i == loadIdx IN
       /\ loadResult' = [loadResult EXCEPT ![i] = PathError(plugin_dirs[i])]
       /\ runPc' = AfterLoad(i, FALSE)
       /\ loadIdx' = IF i < Len(LoadOrder) THEN i + 1 ELSE i
    /\ UNCHANGED <<messaging_plugin_tx, loaded_plugins, cancelled, plugin_tasks, joining,
                   waitRx, timerExpired, sup, initSent, waitSub, handshakeEvent, destroyed>>
    /\ UNCHANGED <<shutdown_flag, loadedAtShutdown, shutdownDuring, reg, bridge, httpd,
                   calc, wasm, preferences, plugin_dirs>>
    /\ UNCHANGED busVars

\* plugins.rs:192-209 - load_plugin_from_path has passed its checks and
\* calls load_plugin.
LoadFromPathOk ==
    /\ loadIdx \notin BuiltIn
    /\ PathError(plugin_dirs[loadIdx]) = "ok"
    /\ LoadRegister

\* The loading of the plugins directory, whatever the paths hold, with the
\* supervisors and a shutdown running beside it; no plugin sends an event,
\* so every handshake ends by its timeout.
NextPath ==
    \/ LoadFromPathErr
    \/ LoadFromPathOk
    \/ LoadConstructFail
    \/ LoadSpawn
    \/ LoadHandshakeStart
    \/ TimerExpire
    \/ WaitTimeout
    \/ RunJoinStart
    \/ RunJoinDone
    \/ RunShutdown
    \/ RunFinalJoin
    \/ ShutdownSignal
    \/ \E i \in Instances : SupInitOk(i) \/ SupInitErr(i) \/ SupCancel(i) \/ SupDestroyDone(i)
    \/ DispExit

\* The built-in plugins are loaded and the plugins directory is about to be
\* read; its first two paths hold anything, the last one a complete plugin.
InitPath ==
    /\ InitHttpServer
    /\ plugin_dirs \in [Instances -> DirStates]
    /\ \A i \in BuiltIn \cup {Len(LoadOrder)} : plugin_dirs[i] = ValidDir

SpecPath == InitPath /\ [][NextPath]_vars

\* ----------------------------------------------------- the guest's ipc::tx
\* wasm_loader lib.rs:196-203 - the code the send import computes: 0 when
\* dispatch_raw_event returned Ok, 1 when it returned Err.
result_code(dispatched) == IF dispatched THEN 0 ELSE 1

\* wasm_runtime ipc.rs:22-34, 49-57 - tx: tx_raw returns the value the host
\* left in the return slot, and tx makes its Err of a value above 1.
tx(ret) == IF ret > 1 THEN "Err" ELSE "Ok"

\* A guest is about to send an event; the global channel has a receiver or
\* has none (dispatch_event fails without one, messaging.rs:23-31).
InitIpc ==
    /\ InitServer
    /\ calc \in {[op |-> "tx", msg |-> e, receiver |-> b, pc |-> "call", ret |-> 0,
                   result |-> "none"] : e \in ChainEvents, b \in BOOLEAN}

\* wasm_loader lib.rs:179-208 - the send import runs dispatch_raw_event and
\* writes the code into the return slot.
HostSendImport ==
    /\ calc.op = "tx" /\ calc.pc = "call"
    /\ calc' = [calc EXCEPT !.pc = "returned", !.ret = result_code(calc.receiver)]
    /\ UNCHANGED calcFrame

\* wasm_runtime ipc.rs:52-57 - tx turns the slot into its result.
GuestTxReturn ==
    /\ calc.op = "tx" /\ calc.pc = "returned"
    /\ calc' = [calc EXCEPT !.pc = "done", !.result = tx(calc.ret)]
    /\ UNCHANGED calcFrame

NextIpc == HostSendImport \/ GuestTxReturn

SpecIpc == InitIpc /\ [][NextIpc]_vars

\* ------------------------------------------------------------- preferences
\* What an operation on the preferences leaves alone.
prefFrame == <<serverVars, messaging_plugin_tx, reg, bridge, httpd, calc, wasm, plugin_dirs>>

\* preferences lib.rs:13-21 - the native types used, and the JSON values a
\* caller passes: a number and a string.
PrefTypes == {"I32", "String"}
PrefValues == {[json |-> "number", text |-> "1"], [json |-> "string", text |-> "a"]}

\* preferences lib.rs:298-306 - value_str: the text stored for a value under
\* a native type; as_i64() / as_str() give None for a value of the other
\* kind and unwrap_or_default() then stores the empty string.
value_str(native_type, value) ==
    IF native_type = "I32"
    THEN (IF value.json = "number" THEN value.text ELSE "")
    ELSE (IF value.json = "string" THEN value.text ELSE "")

\* preferences lib.rs:219-276 - deserialize_preference succeeds on a row:
\* value.parse::<i32>() needs digits, a String takes any text.
Deserializes(row) ==
    IF row.native_type_id = "I32" THEN row.value \in {"1"} ELSE TRUE

\* preferences lib.rs:149-161 - get_preference_by_id: Err when no row has
\* the key ("Preference not found") or when the row does not deserialize.
get_preference_by_id(table, key) ==
    IF table[key] = NoRow \/ ~Deserializes(table[key])
    THEN [ok |-> FALSE, pref |-> NoRow]
    ELSE [ok |-> TRUE, pref |-> table[key]]

\* preferences lib.rs:278-285 - does_preference_exist.
does_preference_exist(table, key) == get_preference_by_id(table, key).ok

\* preferences lib.rs:291-295 - set_preference returns its Err: the
\* preference was read and is locked.
MustReject(table, key) ==
    LET r == get_preference_by_id(table, key) IN r.ok /\ r.pref.is_locked

\* preferences lib.rs:289-290 - set_preference(k, v, t) is called.
SetPreferenceCall(c, k, v, t) ==
    /\ preferences.calls[c].pc = "idle"
    /\ preferences' = [preferences EXCEPT !.calls[c] =
           [op |-> "set", pc |-> "read", key |-> k, value |-> value_str(t, v),
            native_type |-> t, is_locked |-> FALSE,
            underLock |-> preferences.lockedSince[k], result |-> "none"]]
    /\ UNCHANGED prefFrame

\* preferences lib.rs:291-296 - the select of get_preference_by_id has run:
\* a locked preference ends the call with an Err.
SetPreferenceCheck(c) ==
    LET call == preferences.calls[c] IN
    /\ call.op = "set" /\ call.pc = "read"
    /\ preferences' = [preferences EXCEPT !.calls[c] =
           IF MustReject(preferences.table, call.key)
           THEN [call EXCEPT !.pc = "idle", !.result = "err"]
           ELSE [call EXCEPT !.pc = "write"]]
    /\ UNCHANGED prefFrame

\* preferences lib.rs:308-318 with 121-127 - the upsert runs: value and
\* native type are replaced, is_locked is kept (0 for a new row).
SetPreferenceWrite(c) ==
    LET call == preferences.calls[c] IN
    /\ call.op = "set" /\ call.pc = "write"
    /\ preferences' = [preferences EXCEPT
           !.table[call.key] = [value |-> call.value, native_type_id |-> call.native_type,
                                is_locked |-> preferences.table[call.key].is_locked],
           !.calls[c] = [call EXCEPT !.pc = "idle", !.result = "ok"]]
    /\ UNCHANGED prefFrame

\* preferences lib.rs:321-336 - set_preference_lock(k, b) is called.  An
\* unlock being issued ends the period in which writes of k must fail.
SetPreferenceLockCall(c, k, b) ==
    /\ preferences.calls[c].pc = "idle"
    /\ preferences' = [preferences EXCEPT
           !.calls = [d \in PrefCallers |->
               IF d = c
               THEN [op |-> "lock", pc |-> "read", key |-> k, value |-> "",
                     native_type |-> "absent", is_locked |-> b,
                     underLock |-> FALSE, result |-> "none"]
               ELSE IF ~b /\ preferences.calls[d].key = k
                    THEN [preferences.calls[d] EXCEPT !.underLock = FALSE]
                    ELSE preferences.calls[d]],
           !.lockedSince[k] = IF b THEN @ ELSE FALSE]
    /\ UNCHANGED prefFrame

\* A lock of the existing key k completes while no unlock of k is under way.
LockCompleted(c) ==
    LET call == preferences.calls[c] IN
    /\ call.is_locked
    /\ preferences.table[call.key] # NoRow
    /\ \A d \in PrefCallers \ {c} :
          ~(/\ preferences.calls[d].op = "lock" /\ preferences.calls[d].pc # "idle"
            /\ preferences.calls[d].key = call.key /\ ~preferences.calls[d].is_locked)

\* preferences lib.rs:338, 344-346 - does_preference_exist has run: when it
\* is false the call returns Ok without an update.
SetPreferenceLockCheck(c) ==
    LET call == preferences.calls[c] IN
    /\ call.op = "lock" /\ call.pc = "read"
    /\ IF does_preference_exist(preferences.table, call.key)
       THEN preferences' = [preferences EXCEPT !.calls[c] = [call EXCEPT !.pc = "write"]]
       ELSE preferences' = [preferences EXCEPT
                !.calls[c] = [call EXCEPT !.pc = "idle", !.result = "ok"],
                !.lockedSince[call.key] = IF LockCompleted(c) THEN TRUE ELSE @]
    /\ UNCHANGED prefFrame

\* preferences lib.rs:339-346 with 128 - the update of is_locked runs on the
\* row with the key, and the call returns Ok.
SetPreferenceLockWrite(c) ==
    LET call == preferences.calls[c] IN
    /\ call.op = "lock" /\ call.pc = "write"
    /\ preferences' = [preferences EXCEPT
           !.table[call.key] = IF @ = NoRow THEN @ ELSE [@ EXCEPT !.is_locked = call.is_locked],
           !.calls[c] = [call EXCEPT !.pc = "idle", !.result = "ok"],
           !.lockedSince[call.key] = IF LockCompleted(c) THEN TRUE ELSE @]
    /\ UNCHANGED prefFrame

NextPrefs ==
    \E c \in PrefCallers :
        \/ \E k \in PrefKeys, v \in PrefValues, t \in PrefTypes : SetPreferenceCall(c, k, v, t)
        \/ SetPreferenceCheck(c)
        \/ SetPreferenceWrite(c)
        \/ \E k \in PrefKeys, b \in BOOLEAN : SetPreferenceLockCall(c, k, b)
        \/ SetPreferenceLockCheck(c)
        \/ SetPreferenceLockWrite(c)

\* preferences lib.rs:289 - the preferences before any call.
InitPrefs == InitServer /\ calc = CalcIdle

SpecPrefs == InitPrefs /\ [][NextPrefs]_vars

\* ------------------------------------------------------------------ claims
\* The instance that dispatched an accepted event (create_event and
\* dispatch_init_event stamp the plugin's own id as sender).
SenderInstance(e) == messaging_plugin_tx[e.event_sender.id]

\* The dispatcher is running and idle: it waits in recv() with nothing
\* pending and every fan-out and send task has run.  Nothing that was
\* dispatched so far can still reach a per-plugin sender.
BusQuiescent ==
    /\ dispPc = "recv"
    /\ dispRx = Len(glog)
    /\ fanTasks = {}
    /\ sendTasks = {}

\* C1: every accepted event E whose target is All or Plugin(P), dispatched
\* after P registered (load_plugin is sequential, so every instance up to the
\* sender's own had registered before the sender's init() could run), has
\* been sent on P's per-plugin sender once the running dispatcher is idle
\* again.  The lost event stays lost: no task holds it any more.
C1_AcceptedEventReachesSubscriber ==
    BusQuiescent =>
        \A k \in 1..Len(glog) : \A p \in Instances :
            (/\ p <= SenderInstance(glog[k])
             /\ (glog[k].event_target = All \/ glog[k].event_target = Plugin(Id(p))))
            => glog[k] \in Range(ptx[p])

\* C2: when the fan-out of event E runs, a send task for E is spawned for
\* plugin id P of messaging_plugin_tx if and only if E's target is All or
\* Plugin(P), the sender of E included; and nothing else is ever sent on a
\* per-plugin sender.
C2_FanOutMatchesTarget ==
    [][/\ \A e \in fanTasks \ fanTasks' : \A p \in DOMAIN messaging_plugin_tx :
              (<<messaging_plugin_tx[p], e>> \in sendTasks')
                  <=> (e.event_target = All \/ e.event_target = Plugin(p))
       /\ \A i \in Instances : \A k \in 1..Len(ptx'[i]) :
              \/ ptx'[i][k].event_target = All
              \/ ptx'[i][k].event_target = Plugin(Id(i))]_vars

\* C2 witness: the built-in plugin's own broadcast came back on its sender,
\* and an event the second plugin addressed to the first was sent on the
\* first's sender only, although the second was registered too.
C2_Witness ==
    /\ fanTasks = {} /\ sendTasks = {}
    /\ \E e \in Range(ptx[1]) :
          e.event_sender = Plugin(Id(1)) /\ e.event_target = All
    /\ \E e \in Range(ptx[1]) :
          /\ e.event_sender = Plugin(Id(2))
          /\ e.event_target = Plugin(Id(1))
          /\ e \notin Range(ptx[2])

\* C3: two accepted events of one sender appear on a per-plugin channel in
\* the order they were dispatched (event ids are handed out in acceptance
\* order).
C3_SameSenderOrderKept ==
    \A p \in Instances : \A k1, k2 \in 1..Len(ptx[p]) :
        (k1 < k2 /\ ptx[p][k1].event_sender = ptx[p][k2].event_sender)
        => ptx[p][k1].event_id < ptx[p][k2].event_id

\* C4: while the process is alive and shutdown has not been requested, a
\* dispatch_event called by a running plugin returns Ok, that is, the send
\* on the global channel finds a receiver.
C4_DispatchOkBeforeShutdown ==
    \A i \in Instances :
        (sup[i] = "init" /\ ~shutdown_flag /\ ~RunOver) => GlobalSendOk

\* C5: wait_until_event returns Some(e) only for an event e sent on the
\* plugin's channel after the call subscribed and with p(e) true; a turn of
\* the loop over a rejected event or a receive error leaves the wait going;
\* None is returned only with the timeout elapsed.
C5_WaitUntilEvent ==
    [][/\ \A i \in Instances : handshakeEvent'[i] # None =>
              /\ handshakeEvent'[i][1].event_type = "plugin_init"
              /\ \E k \in (waitSub'[i] + 1)..Len(ptx'[i]) : ptx'[i][k] = handshakeEvent'[i][1]
       /\ (/\ runPc = "wait"
           /\ waitRx # NoRx /\ waitRx < Len(ptx[loadIdx])
           /\ waitRx' # waitRx
           /\ \/ Len(ptx[loadIdx]) - waitRx > PluginCap
              \/ ptx[loadIdx][waitRx + 1].event_type # "plugin_init")
          => (runPc' = "wait" \/ (shutdown_flag /\ runPc' = "final_join"))
       /\ \A i \in Instances :
              (loadResult[i] # "init_timeout" /\ loadResult'[i] = "init_timeout")
              => timerExpired]_vars

\* C5 witness: one wait has returned an event, and the wait now going on
\* has passed over what it received (a rejected event or a lag) and is
\* still waiting.
C5_Witness ==
    /\ \E i \in Instances : handshakeEvent[i] # None
    /\ runPc = "wait"
    /\ waitRx > waitSub[loadIdx]

\* C6: a plugin_init addressed to All that plugin P dispatched from init()
\* and that was sent on P's channel between the spawn of its supervisor and
\* the handshake's subscription completes the handshake: load_plugin(P) does
\* not return the init-timeout error.
C6_EarlyInitCompletesHandshake ==
    \A i \in Instances :
        loadResult[i] = "init_timeout" =>
            ~ \E k \in 1..waitSub[i] :
                /\ ptx[i][k].event_type = "plugin_init"
                /\ ptx[i][k].event_target = All
                /\ ptx[i][k].event_sender = Plugin(Id(i))

\* C7: once load_plugin(P) has returned the init-timeout error (no shutdown
\* being under way), P's cancellation token is cancelled or its record is
\* already gone.
C7_TimeoutTearsDown ==
    \A i \in Instances :
        (loadResult[i] = "init_timeout" /\ ~shutdown_flag) =>
            cancelled[i] \/ i \notin Range(loaded_plugins)

\* C8: load_plugin(P) returns Ok only on a plugin_init event whose
\* event_sender is Plugin(P).
C8_HandshakeByOwnInit ==
    \A i \in Instances :
        loadResult[i] = "ok" => handshakeEvent[i][1].event_sender = Plugin(Id(i))

\* C9: every record present when shutdown was requested has had destroy()
\* invoked by the time the record is removed or run returns from its
\* shutdown path (a plugin whose init() failed is left aside: the failure
\* itself removes its record).
C9_DestroyBeforeDrop ==
    \A i \in loadedAtShutdown :
        (sup[i] # "panicked" /\ (i \notin Range(loaded_plugins) \/ runPc = "goodbye"))
        => destroyed[i] >= 1

\* C10, the case in which shutdown is requested after loading completed,
\* while run is waiting on the plugin tasks: when run returns through its
\* shutdown path, every supervisor task that was spawned has finished (runs
\* in which a supervisor panicked are left aside).
C10_RunJoinsSupervisors ==
    (/\ runPc = "goodbye"
     /\ shutdownDuring = "waiting"
     /\ \A i \in Instances : sup[i] # "panicked")
    => \A i \in Instances : sup[i] \in {"none", "done"}

\* C11: a plugin whose token is cancelled while its init() is running gets
\* destroy() invoked exactly once, and its record is removed only after that
\* destroy() returned: destroy() is never invoked twice, a supervisor inside
\* destroy() still has its record, and the process does not end while a
\* cancelled supervisor still sits in its select with destroy() not invoked
\* (stated for a shutdown requested once loading was over and with no
\* supervisor panic, so that nothing but the cancellation is in play).
C11_CancelRunsDestroyOnce ==
    \A i \in Instances :
        /\ destroyed[i] <= 1
        /\ sup[i] = "destroying" => (destroyed[i] = 1 /\ i \in Range(loaded_plugins))
        /\ (/\ cancelled[i] /\ sup[i] = "init"
            /\ shutdownDuring = "waiting"
            /\ \A j \in Instances : sup[j] # "panicked")
           => ~RunOver

\* C12: once the supervisor of plugin P has removed P's record from
\* loaded_plugins, messaging_plugin_tx holds no entry for P's id.
C12_UnloadUnregisters ==
    \A i \in Instances :
        (sup[i] # "none" /\ i \notin Range(loaded_plugins))
        => Id(i) \notin DOMAIN messaging_plugin_tx

\* C13: when init() of a plugin has returned an error, its record is gone
\* from loaded_plugins, and LYServer::run has not returned while another
\* plugin is still running (no shutdown having been requested).
C13_InitErrorConfined ==
    \A i \in Instances :
        sup[i] = "panicked" =>
            /\ i \notin Range(loaded_plugins)
            /\ ~shutdown_flag =>
                   ~(runPc = "returned" /\ \E j \in Instances : sup[j] = "init")

\* C14: when the WASM instantiation of a directory plugin has failed, no
\* record exists for it and the loading goes on: load_plugin_from_path has
\* returned and run has not been brought down.
C14_InstantiationFailureSkipped ==
    \A i \in Instances :
        loadResult[i] = "instantiation_failed" =>
            /\ i \notin Range(loaded_plugins)
            /\ runPc # "panicked"

\* C15: a step of register_plugin_messaging(id, tx) inserts (id, tx) and
\* touches no other key when id is absent; when id is present it returns the
\* already-registered error and leaves the map as it was.  Nothing else ever
\* changes the map.
C15_RegisterInsertsOrRejects ==
    [][LET id == Id(loadIdx)
           map == messaging_plugin_tx
           registerStep == /\ runPc = "load"
                           /\ runPc' # "final_join"
                           /\ <<runPc, loadIdx, map>>' # <<runPc, loadIdx, map>>
       IN /\ map' # map => registerStep
          /\ registerStep =>
               IF id \in DOMAIN map
               THEN /\ map' = map
                    /\ loadResult'[loadIdx] = "already_registered"
               ELSE /\ DOMAIN map' = DOMAIN map \cup {id}
                    /\ map'[id] = loadIdx
                    /\ \A k \in DOMAIN map : map'[k] = map[k]
                    /\ loadResult' = loadResult]_vars

\* C15 witness: an absent id was inserted and, later, a registration of an
\* id already present was rejected with the first sender retained.
C15_Witness ==
    /\ loadResult[4] = "already_registered"
    /\ messaging_plugin_tx[Id(4)] = 2
    /\ Id(3) \in DOMAIN messaging_plugin_tx

\* C16: of the register_plugin_messaging calls made for one id, at most one
\* returns Ok, and the map holds the sender of the call that returned Ok.
C16_RegisterAtomic ==
    \A c1, c2 \in RegCallers :
        (c1 # c2 /\ reg[c1].pc = "ok" /\ reg[c1].id = reg[c2].id)
        => (reg[c2].pc # "ok" /\ messaging_plugin_tx[reg[c1].id] = c1)

\* C17: for every record in loaded_plugins, messaging_plugin_tx holds an
\* entry keyed by the record's plugin id (a map holds at most one per key),
\* and that entry is the sender the record's plugin registered.
C17_RecordHasOneEntry ==
    \A k \in 1..Len(loaded_plugins) :
        LET r == loaded_plugins[k]
        IN /\ Id(r) \in DOMAIN messaging_plugin_tx
           /\ messaging_plugin_tx[Id(r)] = r

\* C17 witness: several records are loaded, one record has been removed by
\* its supervisor, and a second registration of a loaded id was attempted.
C17_Witness ==
    /\ Len(loaded_plugins) >= 2
    /\ \E i \in Instances : sup[i] # "none" /\ i \notin Range(loaded_plugins)
    /\ loadResult[4] = "already_registered"

\* C18: no two records in loaded_plugins carry the same plugin id.
C18_RecordIdsUnique ==
    \A k1, k2 \in 1..Len(loaded_plugins) :
        k1 # k2 => Id(loaded_plugins[k1]) # Id(loaded_plugins[k2])

\* C18 witness: a directory plugin with the id of a loaded plugin was handed
\* to load_plugin while the first record was still present, and was refused.
C18_Witness ==
    /\ loadResult[4] = "already_registered"
    /\ \E k \in 1..Len(loaded_plugins) : Id(loaded_plugins[k]) = Id(4)

\* C19: an intent or a response that carries the request's event id and was
\* sent on the http plugin's channel after the dispatch and before the wait
\* gave up is observed: the bridge does not end with "no intent" when such
\* an intent was sent, nor with the response timeout when such a response
\* was sent.
C19_RepliesAfterDispatchObserved ==
    \A r \in Requests :
        LET id == bridge[r].req[1].event_id
            sent == {ptx[1][k] : k \in (bridge[r].dispAt + 1)..bridge[r].endAt}
        IN /\ bridge[r].pc = "no_intent" => ~ \E e \in sent : IntentPredicate(e, id)
           /\ bridge[r].pc = "response_timeout" => ~ \E e \in sent : ResponsePredicate(e, id)

\* C20: the http_response the bridge turns into the reply has the
\* event_sender of the intent the bridge accepted for the request.
C20_ReplyFromIntentSender ==
    \A r \in Requests :
        bridge[r].pc = "replied" =>
            bridge[r].reply[1].event_sender = bridge[r].intent[1].event_sender


\* C21: with only the built-in plugins loaded and the dispatcher running, a
\* GET /status is not answered with the 500 of the bridge when the http
\* plugin's response to it was sent, before the bridge gave up, on the
\* channel the bridge was subscribed to.
C21_StatusAnswered ==
    \A r \in Requests :
        (RequestUri(r) = "/status" /\ bridge[r].pc = "no_intent"
         /\ BridgeStatus(r) = 500 /\ messaging_loop_running)
        => ~ \E k \in (bridge[r].sub1 + 1)..bridge[r].endAt :
                /\ ResponsePredicate(ptx[1][k], bridge[r].req[1].event_id)
                /\ ptx[1][k].event_sender = Plugin(Id(1))

\* C22: a bridge whose wait for the intent or for the response runs into
\* its timeout answers its request with 500, and the step changes nothing
\* but that bridge: the server, the plugins, the channels and the bridges of
\* the other requests stay as they are.  A bridge gets past the wait for the
\* intent only by an intent carrying the id of its request.
C22_TimeoutYields500 ==
    [][\A r \in Requests :
          /\ (bridge[r].pc \in {"wait1", "wait2"}
              /\ bridge'[r].pc \notin {bridge[r].pc, "between", "replied"})
             => /\ bridge[r].timer
                /\ bridge'[r].pc = IF bridge[r].pc = "wait1" THEN "no_intent"
                                   ELSE "response_timeout"
                /\ BridgeAnswered(r)' /\ BridgeStatus(r)' = 500
                /\ \A q \in Requests \ {r} : bridge'[q] = bridge[q]
                /\ UNCHANGED <<glog, ptx, bridgeFrame>>
          /\ (bridge[r].pc = "wait1" /\ bridge'[r].pc = "between")
             => IntentPredicate(bridge'[r].intent[1], bridge[r].req[1].event_id)
    ]_vars

\* A request was answered 500 after the response timeout, and another
\* request, in flight at that moment, was answered with a response later.
C22_Witness ==
    \E r, q \in Requests :
        /\ bridge[r].pc = "response_timeout"
        /\ bridge[q].pc = "replied"
        /\ bridge[q].dispAt # NoRx
        /\ bridge[q].endAt > bridge[r].endAt

\* C23: with requests handled concurrently, the event a bridge answers its
\* request with is an http_response whose event_id is the id of the
\* http_request that bridge dispatched, and the intent it accepted before
\* carries that id too.
C23_ReplyCorrelatedById ==
    \A r \in Requests :
        /\ bridge[r].reply # None =>
              /\ bridge[r].reply[1].event_type = "http_response"
              /\ bridge[r].reply[1].event_id = bridge[r].req[1].event_id
        /\ bridge[r].intent # None =>
              bridge[r].intent[1].event_id = bridge[r].req[1].event_id

\* A bridge answered its request although, after it subscribed for the
\* response, the response to the other request reached the channel first.
C23_Witness ==
    \E r \in Requests :
        /\ bridge[r].pc = "replied"
        /\ \E k \in (bridge[r].sub2 + 1)..bridge[r].endAt :
              /\ ptx[1][k].event_type = "http_response"
              /\ ptx[1][k].event_id # bridge[r].req[1].event_id
              /\ \E j \in (k + 1)..bridge[r].endAt : ptx[1][j] = bridge[r].reply[1]

\* C24: E.reply(t, s, d) has the event_id of E, E's sender as target, s as
\* sender and t as type; through a chain of replies the event_id stays that
\* of the originating event.
C24_ReplyKeepsIdSwapsEnds ==
    calc.op = "reply" =>
        \A k \in 1..Len(calc.chain) :
            LET c == calc.chain[k]
            IN /\ c.out.event_id = c.from.event_id
               /\ c.out.event_target = c.from.event_sender
               /\ c.out.event_sender = c.s
               /\ c.out.event_type = c.t
               /\ c.out.event_id = calc.origin.event_id

\* A chain of MaxChain replies made by changing senders.
C24_Witness ==
    /\ calc.op = "reply"
    /\ Len(calc.chain) = MaxChain
    /\ calc.chain[1].s # calc.chain[2].s
    /\ calc.chain[2].out.event_target = calc.chain[1].s
    /\ calc.origin.event_target = All

\* C25: when the dispatcher's receive on the global channel reports a lag,
\* the dispatcher keeps running: the step leaves the dispatcher-running flag
\* true and the task in its loop.
C25_LagKeepsDispatcherRunning ==
    [][(/\ dispPc = "recv" /\ dispRx # NoRx
        /\ Lagged(dispRx, glog, GlobalCap)
        /\ ~shutdown_flag
        /\ dispPc' # dispPc)
       => (messaging_loop_running' /\ dispPc' # "done")]_vars

\* C26: an event the dispatcher has forwarded to a loaded WASM plugin (sent
\* on the plugin's channel) leads to an invocation of the plugin's
\* handle_message_event with that event, unless the plugin is unloaded or
\* the process ends first.
C26_ForwardedEventHandled ==
    \A i \in WasmInstances : \A k \in 1..MaxEvents :
        (Len(ptx[i]) >= k /\ i \in Range(loaded_plugins))
        ~> (\/ Len(ptx[i]) >= k /\ ptx[i][k] \in wasm[i].handled
            \/ i \notin Range(loaded_plugins)
            \/ RunOver)

\* C27: a WASM plugin whose guest init is executing when its token is
\* cancelled gets its destroy run to the end and its record removed, unless
\* the process ends first.
C27_DestroyAfterCancelTerminates ==
    \A i \in WasmInstances :
        (/\ cancelled[i] /\ sup[i] = "init"
         /\ wasm[i].initTask \in {"running", "receive"})
        ~> (\/ wasm[i].destroyTask = "done" /\ i \notin Range(loaded_plugins)
            \/ RunOver)

\* C29: an import call of a guest with a range outside its memory does not
\* make a host task panic, leaves the other plugins' supervisors running
\* and does not make LYServer::run return.
C29_MemoryFaultConfined ==
    \A i \in WasmInstances :
        (wasm[i].faults > 0 /\ ~shutdown_flag)
        => /\ \A j \in Instances : sup[j] # "panicked"
           /\ ~RunOver

\* C28: at any time at most one host-initiated guest call (init, destroy,
\* the alloc made for an incoming event, handle_message_event) is executing
\* inside the store of a given WASM plugin.
C28_OneCallPerStore ==
    \A i \in WasmInstances : Cardinality(Executing(wasm[i])) <= 1

\* A store in which init is executing while both destroy and a
\* handle_message_event call wait for it.
C28_Witness ==
    \E i \in WasmInstances :
        /\ Executing(wasm[i]) = {"init"}
        /\ wasm[i].destroyTask = "waiting"
        /\ wasm[i].handleCall \in {"alloc_wait", "handle_wait"}

\* C30: for every target t, converting t to its string form and back
\* (From<String> / From<&str>) yields t: "all" denotes All and any other
\* string s denotes Plugin(s).
C30_TargetStringRoundTrip ==
    calc.op = "convert" =>
        \A k \in 1..2 : calc.back[k] # None => calc.back[k][1] = calc.t[k]

\* C31: once set_preference_lock(k, true) has completed for an existing key
\* k, a set_preference(k, ...) issued before a later unlock does not get
\* past its lock check: it never reaches the write of the value and native
\* type of k.
C31_LockedPreferenceRejectsWrites ==
    \A c \in PrefCallers :
        (preferences.calls[c].op = "set" /\ preferences.calls[c].underLock)
        => preferences.calls[c].pc # "write"

\* C32: the guest's ipc::tx returns Err whenever the host's send import
\* wrote 1 (failure) into the return slot, and returns Ok only when the host
\* wrote 0 (success).
C32_TxReportsHostFailure ==
    (calc.op = "tx" /\ calc.pc = "done")
    => /\ calc.ret = 1 => calc.result = "Err"
       /\ calc.result = "Ok" => calc.ret = 0

\* C33: a plugin that pulls events by calling receive_event in a loop
\* obtains every event the dispatcher sent on its per-plugin sender: when the
\* http plugin's loop waits in recv() with nothing pending, every event sent
\* on the plugin's channel since the loop began has been returned to it.
C33_LoopObtainsEveryEvent ==
    (httpd.pc = "recv" /\ httpd.rx = Len(ptx[1]))
    => \A k \in (Len(<<InitEvent>>) + 1)..Len(ptx[1]) : ptx[1][k] \in httpd.seen

\* C34: when the receive_event of the http plugin's loop observes a lag, the
\* loop goes on: the step does not end the loop, so init() does not return
\* because of it.
C34_PluginLagKeepsLoop ==
    [][(/\ httpd.pc = "recv"
        /\ Lagged(httpd.rx, ptx[1], PluginCap)
        /\ httpd' # httpd)
       => httpd'.pc # "done"]_vars

\* C35: when load_plugin_from_path fails because the path is not a
\* directory, manifest.toml is missing or unparsable, wasm_entry_point is
\* absent, or the wasm file does not exist, the step of the loader returns an
\* error and leaves loaded_plugins, messaging_plugin_tx and the supervisor
\* tasks unchanged.
C35_PathFailureLeavesStateAlone ==
    [][(/\ runPc = "load" /\ loadIdx \notin BuiltIn
        /\ LET dir == plugin_dirs[loadIdx]
           IN \/ ~dir.is_dir
              \/ dir.manifest \in {"missing", "unparsable", "no_entry_point"}
              \/ ~dir.wasm_exists
        /\ runPc' \in {"load", "join_start", "construct"}
        /\ (runPc' # runPc \/ loadIdx' # loadIdx \/ loadResult' # loadResult))
       => (/\ loadResult'[loadIdx] \in PathErrors
           /\ UNCHANGED <<loaded_plugins, messaging_plugin_tx, plugin_tasks, sup>>)]_vars

\* A path whose wasm file is missing was refused and the next path's plugin
\* got loaded.
C35_Witness ==
    /\ loadResult[2] = "wasm_entry_not_found"
    /\ 3 \in Range(loaded_plugins)
    /\ 2 \notin Range(loaded_plugins)
    /\ sup[2] = "none"

\* C36: if destroy() returns an error during teardown, the plugin's record
\* is still removed from loaded_plugins and its supervisor task finishes
\* normally (finished, not panicked), so the error does not make the joins of
\* wait_for_all_plugins fail.
C36_DestroyErrorTeardownProceeds ==
    \A i \in StoreInstances :
        (wasm[i].destroyTask = "err" /\ sup[i] # "destroying")
        => /\ i \notin Range(loaded_plugins)
           /\ TaskFinished(SupervisorTask(i))
           /\ ~TaskPanicked(SupervisorTask(i))

\* The destroy of a plugin failed, every task ended and LYServer::run
\* reached its end through the final join.
C36_Witness ==
    /\ \E i \in StoreInstances : wasm[i].destroyTask = "err" /\ sup[i] = "done"
    /\ \A j \in Instances : sup[j] # "panicked"
    /\ runPc = "goodbye"

\* ------------------------------------------------------------------ router
\* Request methods and matcher methods as written by callers, in either case.
RouterMethods == {"GET", "get", "POST"}

\* str::eq_ignore_ascii_case (http_shared lib.rs:98): both sides compared
\* after folding ASCII letters to upper case.
to_ascii_uppercase(m) == IF m = "get" THEN "GET" ELSE m

eq_ignore_ascii_case(a, b) == to_ascii_uppercase(a) = to_ascii_uppercase(b)

\* Paths as sequences of segments; a segment starting with a colon is a
\* parameter of the pattern.
ParamSegments == {":id"}
RouterPatterns == {<<"a">>, <<":id">>}
RouterUris == {<<"a">>, <<"b">>, <<"a", "c">>}

\* http_shared lib.rs:102-104 - a PathTree holding the one pattern finds the
\* URI when every segment is the pattern's literal or fills a parameter.
tree_find(pattern, uri) ==
    /\ Len(pattern) = Len(uri)
    /\ \A k \in 1..Len(pattern) : pattern[k] \in ParamSegments \/ pattern[k] = uri[k]

\* A method comparison that does not ignore case.
static_match_request_CaseSensitive(request, method, uri) ==
    request.method = method /\ tree_find(uri, request.uri)

\* http_shared lib.rs:97-120 - static_match_request yields a route or None.
static_match_request(request, method, uri) ==
    /\ eq_ignore_ascii_case(request.method, method)
    /\ tree_find(uri, request.uri)

\* router.rs:16 - a matcher: method, pattern and handler; the handler is
\* represented by the outcome of its future.
RouterMatchers ==
    [method : RouterMethods, uri : RouterPatterns, handler : {"Ok", "Err"}]

RouterRequests == [method : RouterMethods, uri : RouterUris]

\* router.rs:48-67 - respond, from matcher k on: the response, and the
\* matchers whose handler was awaited on the way.
RECURSIVE respond_from(_, _, _)
respond_from(matchers, request, k) ==
    IF k > Len(matchers)
    THEN [response |-> None, invoked |-> << >>]
    ELSE IF static_match_request(request, matchers[k].method, matchers[k].uri)
         THEN IF matchers[k].handler = "Ok"
              THEN [response |-> Some([status |-> 200, by |-> k]), invoked |-> <<k>>]
              ELSE [response |-> Some([status |-> 400, by |-> 0]), invoked |-> <<k>>]
         ELSE respond_from(matchers, request, k + 1)

respond(matchers, request) == respond_from(matchers, request, 1)

\* router.rs:25-30 - LYServerHTTPRouter::new.
InitRouter ==
    /\ InitServer
    /\ calc = [op |-> "router", matchers |-> << >>, request |-> None, out |-> None]

\* router.rs:33-42 - add_matcher pushes at the end.
add_matcher(method, path, handler) ==
    /\ calc.op = "router" /\ Len(calc.matchers) < MaxMatchers
    /\ calc' = [calc EXCEPT
            !.matchers = Append(@, [method |-> method, uri |-> path, handler |-> handler]),
            !.request = None, !.out = None]
    /\ UNCHANGED calcFrame

\* router.rs:48-67 - one call of respond.
RouterRespond(request) ==
    /\ calc.op = "router"
    /\ calc' = [calc EXCEPT !.request = Some(request),
                            !.out = Some(respond(calc.matchers, request))]
    /\ UNCHANGED calcFrame

NextRouter ==
    \/ \E m \in RouterMethods, p \in RouterPatterns, h \in {"Ok", "Err"} : add_matcher(m, p, h)
    \/ \E r \in RouterRequests : RouterRespond(r)

SpecRouter == InitRouter /\ [][NextRouter]_vars

\* The matchers of the router that match the request, by position.
MatchingPositions(matchers, request) ==
    {k \in 1..Len(matchers) :
        /\ to_ascii_uppercase(matchers[k].method) = to_ascii_uppercase(request.method)
        /\ tree_find(matchers[k].uri, request.uri)}

\* C37: respond awaits at most one handler, that of the earliest-added
\* matcher whose method equals the request's ignoring ASCII case and whose
\* pattern matches the URI; it returns None when no matcher matches, and a
\* failing handler gives a 400 response with no later matcher tried.
C37_RespondFirstMatchOnly ==
    (calc.op = "router" /\ calc.out # None)
    => LET ms == calc.matchers
           rq == calc.request[1]
           o == calc.out[1]
           hits == MatchingPositions(ms, rq)
       IN IF hits = {}
          THEN o.response = None /\ o.invoked = << >>
          ELSE LET first == CHOOSE k \in hits : \A j \in hits : k <= j
               IN /\ o.invoked = <<first>>
                  /\ ms[first].handler = "Ok"
                        => o.response = Some([status |-> 200, by |-> first])
                  /\ ms[first].handler = "Err"
                        => o.response # None /\ o.response[1].status = 400

\* A lower-case request method meets an upper-case matcher whose handler
\* fails while a later matcher would also match.
C37_Witness ==
    /\ calc.op = "router" /\ calc.out # None
    /\ Len(calc.matchers) = MaxMatchers
    /\ calc.request[1].method = "get"
    /\ calc.matchers[1].method = "POST"
    /\ calc.matchers[2] = [method |-> "GET", uri |-> <<":id">>, handler |-> "Err"]
    /\ calc.matchers[3] = [method |-> "get", uri |-> <<"a">>, handler |-> "Ok"]
    /\ calc.request[1].uri = <<"a">>
    /\ calc.out[1].response[1].status = 400

\* C38: once init_messaging_loop has returned and before shutdown is
\* requested, the dispatcher-running flag is true whenever load_plugin reads
\* it, so that load_plugin never aborts on its dispatcher-not-running check.
C38_LoadSeesDispatcherRunning ==
    [][(/\ runPc = "handshake" /\ runPc' # "handshake"
        /\ plugin_tasks # {} /\ ~shutdown_flag)
       => (messaging_loop_running /\ runPc' # "panicked")]_vars

\* C39: in every reachable state each record in loaded_plugins has a
\* supervisor task that is still running (in its select over init() and the
\* token, or in the destroy() the token led to), so that cancelling the
\* record's token leads to destroy and to removal of the record.
C39_RecordHasRunningSupervisor ==
    \A i \in Range(loaded_plugins) : sup[i] \in {"init", "destroying"}

\* ------------------------------------------------------- the send import
\* messaging_shared lib.rs:114-131 - the sender a guest writes into the event
\* it builds: any string, turned into a target value.
GuestSenders == {All} \cup {Plugin(p) : p \in PluginIds}

\* No event has gone through a send import yet.
InitSend ==
    /\ InitWasmServer
    /\ calc = [op |-> "send", sent |-> << >>]

\* wasm_loader lib.rs:179-213 with plugin_shared_data lib.rs:81-98 - the
\* send import of plugin i: dispatch_raw_event parses the bytes of the guest
\* and hands the event it obtains to dispatch_event as it is.  calc.sent
\* keeps, for each event accepted, the plugin whose import it went through.
GuestSendRaw(i, ty, tg, sn) ==
    /\ ~RunOver
    /\ wasm[i].initTask = "running"
    /\ Len(glog) < MaxEvents
    /\ IF GlobalSendOk
       THEN /\ glog' = Append(glog, LYServerMessageEvent(generate(glog), ty, tg, sn))
            /\ calc' = [calc EXCEPT !.sent = Append(@, [plugin |-> i, at |-> Len(glog) + 1])]
       ELSE UNCHANGED <<glog, calc>>
    /\ UNCHANGED <<shutdown_flag, messaging_loop_running, dispRx, dispPc, fanTasks,
                   sendTasks, ptx, loadedAtShutdown, shutdownDuring, reg, bridge, httpd,
                   wasm, preferences, plugin_dirs>>
    /\ UNCHANGED mgrVars

\* Guests that send through their imports, and the bus that delivers.
NextSend ==
    \/ \E i \in WasmInstances :
          \/ WasmInitSpawn(i)
          \/ WasmInitLock(i)
          \/ \E ty \in EventTypes, tg \in Targets, sn \in GuestSenders :
                GuestSendRaw(i, ty, tg, sn)
    \/ DispRecv
    \/ \E e \in fanTasks : FanOut(e)
    \/ \E t \in sendTasks : SendToPlugin(t[1], t[2])

SpecSend == InitSend /\ [][NextSend]_vars

\* C40: every event that reaches the global channel through plugin P's send
\* import has event_sender equal to Plugin(P).
C40_SendImportKeepsSender ==
    calc.op = "send"
    => \A k \in 1..Len(calc.sent) :
          glog[calc.sent[k].at].event_sender = Plugin(Id(calc.sent[k].plugin))

====
